---- MODULE Spec2Model ----
(***************************************************************************)
(* Model of the #[union_fn] procedural macro (Robbepop/union-fn):          *)
(*   - the analysis of a trait (macro/src/analyse.rs),                     *)
(*   - the expansion of an analysed trait (macro/src/expand.rs,            *)
(*     macro/src/method.rs, macro/src/utils.rs),                           *)
(*   - the behaviour of the generated types when they are used.            *)
(***************************************************************************)
EXTENDS Integers, Sequences, FiniteSets, TLC

(***************************************************************************)
(* Bounds of the model.                                                    *)
(***************************************************************************)
\* Largest number of trait items of an analysed trait.
MaxItems == 3

\* The largest number of parameters of a method of trait Test of
\* tests/ui/pass/many-args.rs that the model includes.
MaxArgs == 3

(***************************************************************************)
(* Option values, spans and errors.                                        *)
(***************************************************************************)
NoneV == [some |-> FALSE]
Some(x) == [some |-> TRUE, v |-> x]

\* A span: the trait item (by its position in the source) and the part of it.
SpanOf(pos, part) == [item |-> pos, part |-> part, arg |-> 0]

\* The span of the n-th input of the method at position pos.
ArgSpan(pos, n) == [item |-> pos, part |-> "input", arg |-> n]

\* syn::Error::new_spanned: an error is a sequence of (message, span) pairs.
\* (The messages are written with ' where the source has a backquote.)
NewError(msg, span) == << [msg |-> msg, span |-> span] >>

\* ExtError::into_combine: the messages of 'another' follow those of 'self'.
into_combine(self, another) == self \o another

(***************************************************************************)
(* Trait items as produced by the parser.                                  *)
(***************************************************************************)
\* Identifiers are sequences of characters.
id_f == <<"f">>
id_g == <<"g">>

\* A typed function argument 'pat: ty' and a 'self' receiver.
\* pat_kind is "Ident" for an identifier pattern and "Wild" for '_'.
Typed(pat_kind, pat, ty) == [kind |-> "Typed", pat_kind |-> pat_kind, pat |-> pat, ty |-> ty]
Receiver == [kind |-> "Receiver", pat_kind |-> "Self", pat |-> <<"s">>, ty |-> "Self"]

CtxArg == Typed("Ident", <<"c">>, "&mut Self::Context")
I64Arg(name) == Typed("Ident", name, "i64")

\* An associated type 'type ident<generics>: bounds = default where ..;'
TypeItem(ident, default) ==
    [kind |-> "Type", ident |-> ident, generics |-> FALSE, where_clause |-> FALSE,
     bounds |-> FALSE, default |-> default]

\* An associated method; 'output' is "Default" when no return type is written,
\* 'default' is the body of the method or "none".
MethodItem(ident, inputs, output, body) ==
    [kind |-> "Method", ident |-> ident, generics |-> FALSE, where_clause |-> FALSE,
     variadic |-> FALSE, constness |-> FALSE, asyncness |-> FALSE, unsafety |-> FALSE,
     abi |-> "none", inputs |-> inputs, output |-> output, default |-> body]

\* An associated constant (an unsupported trait item).
ConstItem == [kind |-> "Const"]

\* The trait header: macro arguments and the properties analyze_trait looks at.
GoodHeader == [args |-> FALSE, unsafety |-> FALSE, auto_token |-> FALSE,
               generics |-> FALSE, supertraits |-> FALSE]

(***************************************************************************)
(* UnionFnState (analyse.rs): the registered Context, Output and the       *)
(* signature shared by all methods.                                        *)
(***************************************************************************)
\* UnionFnState::default()
DefaultState == [context |-> NoneV, output |-> NoneV, signature |-> NoneV]

Ok(st) == [ok |-> TRUE, state |-> st, err |-> <<>>]
Err(st, e) == [ok |-> FALSE, state |-> st, err |-> e]

\* TypeDeclError without the requirement of a default type.
TypeDeclError_nodefault(item, name, bounds_msg) ==
    IF item.generics
    THEN NewError("cannot have generics for " \o name \o " type in #[union_fn] trait",
                  SpanOf(item.pos, "generics"))
    ELSE IF item.where_clause
    THEN NewError("cannot have where clause for " \o name \o " type in #[union_fn] trait",
                  SpanOf(item.pos, "where_clause"))
    ELSE IF item.bounds
    THEN NewError("cannot have " \o bounds_msg \o " for " \o name \o " type in #[union_fn] trait",
                  SpanOf(item.pos, "bounds"))
    ELSE <<>>

\* The checks on an associated type shared by register_context and
\* register_output, after the conflict check; <<>> when the item is accepted.
TypeDeclError(item, name, bounds_msg) ==
    IF item.generics
    THEN NewError("cannot have generics for " \o name \o " type in #[union_fn] trait",
                  SpanOf(item.pos, "generics"))
    ELSE IF item.where_clause
    THEN NewError("cannot have where clause for " \o name \o " type in #[union_fn] trait",
                  SpanOf(item.pos, "where_clause"))
    ELSE IF item.bounds
    THEN NewError("cannot have " \o bounds_msg \o " for " \o name \o " type in #[union_fn] trait",
                  SpanOf(item.pos, "bounds"))
    ELSE IF item.default = "none"
    THEN NewError("must have a default for " \o name \o " type in #[union_fn] trait",
                  SpanOf(item.pos, "item"))
    ELSE <<>>

\* register_context with the conflict check after the checks on the item.
register_context_late_conflict(st, item) ==
    IF TypeDeclError(item, "Context", "trait bounds") # <<>>
    THEN Err(st, TypeDeclError(item, "Context", "trait bounds"))
    ELSE IF st.context.some
    THEN Err(st, into_combine(
                NewError("encountered conflicting Context types in #[union_fn] trait",
                         SpanOf(item.pos, "item")),
                NewError("previous Context definition here",
                         SpanOf(st.context.v.pos, "item"))))
    ELSE Ok([st EXCEPT !.context = Some(item)])

\* UnionFnState::register_context: the conflict with an earlier Context is
\* checked first, then the item itself.
register_context(st, item) ==
    IF st.context.some
    THEN Err(st, into_combine(
                NewError("encountered conflicting Context types in #[union_fn] trait",
                         SpanOf(item.pos, "item")),
                NewError("previous Context definition here",
                         SpanOf(st.context.v.pos, "item"))))
    ELSE IF TypeDeclError(item, "Context", "trait bounds") # <<>>
    THEN Err(st, TypeDeclError(item, "Context", "trait bounds"))
    ELSE Ok([st EXCEPT !.context = Some(item)])

register_output(st, item) ==
    IF st.output.some
    THEN Err(st, into_combine(
                NewError("encountered conflicting Output types in #[union_fn] trait",
                         SpanOf(item.pos, "item")),
                NewError("previous Output definition here",
                         SpanOf(st.output.v.pos, "item"))))
    ELSE IF TypeDeclError(item, "Output", "bounds") # <<>>
    THEN Err(st, TypeDeclError(item, "Output", "bounds"))
    ELSE Ok([st EXCEPT !.output = Some(item)])

\* get_context / get_output: the default type of the registered declaration.
\* 'unwrap' of a missing default panics: modelled by the value "panic".
get_context(st) ==
    IF st.context.some
    THEN Some(IF st.context.v.default = "none" THEN "panic" ELSE st.context.v.default)
    ELSE NoneV

get_output(st) ==
    IF st.output.some
    THEN Some(IF st.output.v.default = "none" THEN "panic" ELSE st.output.v.default)
    ELSE NoneV

\* get_output_type that does not look at the shared signature.
get_output_type_unit(st) ==
    IF get_output(st).some THEN get_output(st).v ELSE "()"

\* get_output_type: the Output type if any, else the return type of the
\* shared signature, else '()'.
get_output_type(st) ==
    IF get_output(st).some THEN get_output(st).v
    ELSE IF st.signature.some
         THEN (IF st.signature.v.output = "Default" THEN "()" ELSE st.signature.v.output)
         ELSE "()"

register_type(st, item) ==
    IF item.ident = "Context" THEN register_context(st, item)
    ELSE IF item.ident = "Output" THEN register_output(st, item)
    ELSE Err(st, NewError("encountered unsupported associated type for #[union_fn] trait",
                          SpanOf(item.pos, "item")))

\* The span of a token of a signature if the token is present, else 'dflt'.
TokenSpan(present, pos, part, dflt) ==
    IF present THEN SpanOf(pos, part) ELSE dflt

\* make_err of register_sigature.
MismatchError(err_span, context, mis_span) ==
    into_combine(
        NewError("encountered mismatch in " \o context \o " for #[union_fn] method", err_span),
        NewError("mismatch with this method", mis_span))

\* mismatch_check without the comparison of asyncness.
mismatch_check_noasync(item, sg) ==
    LET span == SpanOf(item.pos, "sig") IN
    IF item.constness # sg.constness
    THEN MismatchError(TokenSpan(item.constness, item.pos, "constness", span), "constness",
                       TokenSpan(sg.constness, sg.pos, "constness", sg.span))
    ELSE IF item.unsafety # sg.unsafety
    THEN MismatchError(TokenSpan(item.unsafety, item.pos, "unsafety", span), "unsafety",
                       TokenSpan(sg.unsafety, sg.pos, "unsafety", sg.span))
    ELSE IF item.abi # sg.abi
    THEN MismatchError(TokenSpan(item.abi # "none", item.pos, "abi", span), "abi",
                       TokenSpan(sg.abi # "none", sg.pos, "abi", sg.span))
    ELSE <<>>

\* The comparison of a signature with the shared signature sg in
\* register_sigature: <<>> when they agree.
mismatch_check(item, sg) ==
    LET span == SpanOf(item.pos, "sig") IN
    IF item.constness # sg.constness
    THEN MismatchError(TokenSpan(item.constness, item.pos, "constness", span), "constness",
                       TokenSpan(sg.constness, sg.pos, "constness", sg.span))
    ELSE IF item.asyncness # sg.asyncness
    THEN MismatchError(TokenSpan(item.asyncness, item.pos, "asyncness", span), "asyncness",
                       TokenSpan(sg.asyncness, sg.pos, "asyncness", sg.span))
    ELSE IF item.unsafety # sg.unsafety
    THEN MismatchError(TokenSpan(item.unsafety, item.pos, "unsafety", span), "unsafety",
                       TokenSpan(sg.unsafety, sg.pos, "unsafety", sg.span))
    ELSE IF item.abi # sg.abi
    THEN MismatchError(TokenSpan(item.abi # "none", item.pos, "abi", span), "abi",
                       TokenSpan(sg.abi # "none", sg.pos, "abi", sg.span))
    ELSE <<>>

\* register_sigature that stores the signature of every method it accepts.
register_sigature_overwrite(st, item) ==
    IF item.generics
    THEN Err(st, NewError("must not be generic", SpanOf(item.pos, "generics")))
    ELSE IF item.where_clause
    THEN Err(st, NewError("must not have a where clause", SpanOf(item.pos, "where_clause")))
    ELSE IF item.variadic
    THEN Err(st, NewError("must not have variadic arguments", SpanOf(item.pos, "variadic")))
    ELSE IF st.signature.some /\ mismatch_check(item, st.signature.v) # <<>>
    THEN Err(st, mismatch_check(item, st.signature.v))
    ELSE Ok([st EXCEPT !.signature =
                Some([span |-> SpanOf(item.pos, "sig"), pos |-> item.pos,
                      constness |-> item.constness, asyncness |-> item.asyncness,
                      unsafety |-> item.unsafety, abi |-> item.abi,
                      output |-> item.output])])

register_sigature(st, item) ==
    IF item.generics
    THEN Err(st, NewError("must not be generic", SpanOf(item.pos, "generics")))
    ELSE IF item.where_clause
    THEN Err(st, NewError("must not have a where clause", SpanOf(item.pos, "where_clause")))
    ELSE IF item.variadic
    THEN Err(st, NewError("must not have variadic arguments", SpanOf(item.pos, "variadic")))
    ELSE IF ~st.signature.some
    THEN Ok([st EXCEPT !.signature =
                Some([span |-> SpanOf(item.pos, "sig"), pos |-> item.pos,
                      constness |-> item.constness, asyncness |-> item.asyncness,
                      unsafety |-> item.unsafety, abi |-> item.abi,
                      output |-> item.output])])
    ELSE IF mismatch_check(item, st.signature.v) # <<>>
    THEN Err(st, mismatch_check(item, st.signature.v))
    ELSE Ok(st)

\* The position of the first 'self' receiver among the inputs, 0 if none.
FirstReceiver(inputs) ==
    IF \E i \in 1..Len(inputs) : inputs[i].kind = "Receiver"
    THEN CHOOSE i \in 1..Len(inputs) :
            /\ inputs[i].kind = "Receiver"
            /\ \A j \in 1..(i - 1) : inputs[j].kind # "Receiver"
    ELSE 0

\* make_err of the Output check of register_method.
OutputError(span, st) ==
    into_combine(NewError("must return Self::Output", span),
                 NewError("since Output is defined here", SpanOf(st.output.v.pos, "default")))

\* make_err of the Context check of register_method.
ContextError(span, st) ==
    into_combine(NewError("must have type of '&mut Self::Context' as first argument", span),
                 NewError("since Context is defined here", SpanOf(st.context.v.pos, "default")))

\* output_check that accepts a method without return type whatever the
\* Output type is.
output_check_nodefault(st, item) ==
    IF ~get_output(st).some \/ item.output = "Default" THEN <<>>
    ELSE IF item.output # "Self::Output" THEN OutputError(SpanOf(item.pos, "return_type"), st)
    ELSE <<>>

\* The Output check of register_method: <<>> when the method passes.
output_check(st, item) ==
    IF ~get_output(st).some THEN <<>>
    ELSE IF item.output = "Default" THEN OutputError(SpanOf(item.pos, "item"), st)
    ELSE IF item.output # "Self::Output" THEN OutputError(SpanOf(item.pos, "return_type"), st)
    ELSE <<>>

\* body_check that accepts a method without body.
body_check_nobody(item) ==
    IF FirstReceiver(item.inputs) # 0
    THEN NewError("must not have self receiver argument",
                  ArgSpan(item.pos, FirstReceiver(item.inputs)))
    ELSE <<>>

\* The checks of register_method for a body and against self receivers.
body_check(item) ==
    IF item.default = "none"
    THEN NewError("must have default implementation", SpanOf(item.pos, "item"))
    ELSE IF FirstReceiver(item.inputs) # 0
    THEN NewError("must not have self receiver argument",
                  ArgSpan(item.pos, FirstReceiver(item.inputs)))
    ELSE <<>>

\* context_check that accepts a method without parameters.
context_check_noparams(st, item) ==
    IF ~get_context(st).some \/ Len(item.inputs) = 0 THEN <<>>
    ELSE IF item.inputs[1].kind = "Receiver"
    THEN NewError("must not have a 'self' receiver as first argument in #[union_fn] methods",
                  ArgSpan(item.pos, 1))
    ELSE IF item.inputs[1].ty # "&mut Self::Context"
    THEN ContextError(ArgSpan(item.pos, 1), st)
    ELSE <<>>

\* The Context check of register_method: <<>> when the method passes.
context_check(st, item) ==
    IF ~get_context(st).some THEN <<>>
    ELSE IF Len(item.inputs) = 0 THEN ContextError(SpanOf(item.pos, "sig"), st)
    ELSE IF item.inputs[1].kind = "Receiver"
    THEN NewError("must not have a 'self' receiver as first argument in #[union_fn] methods",
                  ArgSpan(item.pos, 1))
    ELSE IF item.inputs[1].ty # "&mut Self::Context"
    THEN ContextError(ArgSpan(item.pos, 1), st)
    ELSE <<>>

\* register_method_checks that accepts, next to Self::Output, a return type
\* equal to the default type of the Output.
register_method_checks_by_type(st, item) ==
    IF /\ output_check(st, item) # <<>>
       /\ ~(get_output(st).some /\ item.output = get_output(st).v)
    THEN Err(st, output_check(st, item))
    ELSE IF body_check(item) # <<>> THEN Err(st, body_check(item))
    ELSE IF context_check(st, item) # <<>> THEN Err(st, context_check(st, item))
    ELSE Ok(st)

\* register_method after register_sigature succeeded with state st.
register_method_checks(st, item) ==
    IF output_check(st, item) # <<>> THEN Err(st, output_check(st, item))
    ELSE IF body_check(item) # <<>> THEN Err(st, body_check(item))
    ELSE IF context_check(st, item) # <<>> THEN Err(st, context_check(st, item))
    ELSE Ok(st)

register_method(st, item) ==
    IF ~register_sigature(st, item).ok
    THEN register_sigature(st, item)
    ELSE register_method_checks(register_sigature(st, item).state, item)

\* UnionFn::analyze_trait together with the macro argument check of
\* UnionFn::new; <<>> when the trait header is accepted.
analyze_trait(header) ==
    IF header.args
    THEN NewError("cannot have macro arguments for #[union_fn]", SpanOf(0, "args"))
    ELSE IF header.unsafety
    THEN NewError("cannot have unsafe #[union_fn] trait; only associated methods can be unsafe",
                  SpanOf(0, "unsafety"))
    ELSE IF header.auto_token
    THEN NewError("cannot have 'auto' #[union_fn] trait", SpanOf(0, "auto_token"))
    ELSE IF header.generics
    THEN NewError("cannot have generic #[union_fn] trait", SpanOf(0, "generics"))
    ELSE IF header.supertraits
    THEN NewError("cannot have supertraits for union functions", SpanOf(0, "generics"))
    ELSE <<>>

\* order_value of sort_items.
order_value(item) ==
    IF item.kind = "Type" THEN 1
    ELSE IF item.kind = "Method" THEN 2
    ELSE 0

\* WithKey for a sort that is not stable: the items of key k in reverse
\* order.
WithKey_reversed(items, k) ==
    [i \in 1..Len(SelectSeq(items, LAMBDA it : order_value(it) = k)) |->
        SelectSeq(items, LAMBDA it : order_value(it) = k)
            [Len(SelectSeq(items, LAMBDA it : order_value(it) = k)) + 1 - i]]

\* sort_items: a stable sort by order_value (slice::sort_by_key is stable),
\* that is the items of key 0, then of key 1, then of key 2, each group in
\* its original order.
WithKey(items, k) == SelectSeq(items, LAMBDA it : order_value(it) = k)

\* sort_items that leaves the items in source order.
sort_items_unsorted(items) == items

sort_items(items) == WithKey(items, 0) \o WithKey(items, 1) \o WithKey(items, 2)

\* UnionFn::analyze_item
analyze_item(st, item) ==
    IF item.kind = "Method" THEN register_method(st, item)
    ELSE IF item.kind = "Type" THEN register_type(st, item)
    ELSE IF item.kind \in {"Const", "Macro", "Verbatim"}
    THEN Err(st, NewError("encountered unsupported trait item in #[union_fn] trait",
                          SpanOf(item.pos, "item")))
    ELSE Err(st, NewError("encountered unknown item in #[union_fn] trait",
                          SpanOf(item.pos, "item")))

\* UnionFn::methods: the methods among the (sorted) trait items, in order.
methods(items) == SelectSeq(items, LAMBDA it : it.kind = "Method")

(***************************************************************************)
(* UnionFnMethod (method.rs) and the helpers of utils.rs.                  *)
(***************************************************************************)
\* The decimal digits of n < 100 as characters.
DigitChar(d) == <<"0", "1", "2", "3", "4", "5", "6", "7", "8", "9">>[d + 1]

Digits(n) == IF n < 10 THEN <<DigitChar(n)>> ELSE <<DigitChar(n \div 10), DigitChar(n % 10)>>

\* inputs that pops the first input whether or not a Context is registered.
inputs_always_pop(m, st) == SubSeq(m.inputs, 2, Len(m.inputs))

\* UnionFnMethod::inputs: the typed inputs without the context parameter.
\* (A self receiver panics; the analysis accepts no method that has one.)
inputs(m, st) ==
    IF get_context(st).some THEN SubSeq(m.inputs, 2, Len(m.inputs)) ELSE m.inputs

\* UnionFnMethod::ident_or_numbered, n counted from 0: the identifier of the
\* pattern if the pattern is a syn::Pat::Path of one identifier without
\* qualified self, else '_N'.  (syn parses a plain identifier pattern as
\* syn::Pat::Ident, pat_kind "Ident".)
ident_or_numbered(arg, n) ==
    IF arg.pat_kind = "Path" THEN arg.pat ELSE <<"_">> \o Digits(n)

\* UnionFnMethod::input_bindings
input_bindings(m, st) ==
    [i \in 1..Len(inputs(m, st)) |-> ident_or_numbered(inputs(m, st)[i], i - 1)]

\* UnionFnMethod::input_types
input_types(m, st) ==
    [i \in 1..Len(inputs(m, st)) |-> inputs(m, st)[i].ty]

\* UnionFnMethod::ident_inputs: 'binding: type'
ident_inputs(m, st) ==
    [i \in 1..Len(inputs(m, st)) |->
        [pat |-> ident_or_numbered(inputs(m, st)[i], i - 1), ty |-> inputs(m, st)[i].ty]]

\* UnionFnMethod::context: the pattern of the first input if a Context is
\* registered.
context(m, st) ==
    IF ~get_context(st).some THEN NoneV
    ELSE IF Len(m.inputs) = 0 \/ m.inputs[1].kind = "Receiver" THEN Some("panic")
    ELSE Some(m.inputs[1].pat)

\* make_tuple_type: '()' for no element, the element itself for one element,
\* '(e1, e2, ..)' otherwise.
make_tuple_type(args) ==
    IF Len(args) = 0 THEN [shape |-> "unit", elems |-> <<>>]
    ELSE IF Len(args) = 1 THEN [shape |-> "single", elems |-> <<args[1]>>]
    ELSE [shape |-> "tuple", elems |-> args]

\* Character classes of identifiers.
Lower == {"a","b","c","d","e","f","g","h","i","j","k","l","m",
          "n","o","p","q","r","s","t","u","v","w","x","y","z"}
Upper == {"A","B","C","D","E","F","G","H","I","J","K","L","M",
          "N","O","P","Q","R","S","T","U","V","W","X","Y","Z"}
LowerSeq == <<"a","b","c","d","e","f","g","h","i","j","k","l","m",
              "n","o","p","q","r","s","t","u","v","w","x","y","z">>
UpperSeq == <<"A","B","C","D","E","F","G","H","I","J","K","L","M",
              "N","O","P","Q","R","S","T","U","V","W","X","Y","Z">>

ToUpper(c) == IF c \in Lower THEN UpperSeq[CHOOSE i \in 1..26 : LowerSeq[i] = c] ELSE c
ToLower(c) == IF c \in Upper THEN LowerSeq[CHOOSE i \in 1..26 : UpperSeq[i] = c] ELSE c

\* The case mode of heck after character c when it was `mode` before:
\* a letter sets it, any other character keeps it.
NextMode(c, mode) ==
    IF c \in Lower THEN "Lowercase" ELSE IF c \in Upper THEN "Uppercase" ELSE mode

\* AsUpperCamelCase (heck), from character i of identifier s on; `start`
\* tells whether a word starts at i and `mode` is the case mode of the word
\* so far.  The identifier is split at '_'; within a piece a word ends
\* before an upper case letter that follows lower case (digits keep the
\* mode), and before the last of a run of upper case letters that is
\* followed by a lower case letter.  Each word is written with an upper
\* case first character and the rest in lower case, without separators.
RECURSIVE CamelFrom(_, _, _, _)
CamelFrom(s, i, start, mode) ==
    IF i > Len(s) THEN <<>>
    ELSE IF s[i] = "_" THEN CamelFrom(s, i + 1, TRUE, "Boundary")
    ELSE IF i = Len(s) \/ s[i + 1] = "_"
    THEN <<IF start THEN ToUpper(s[i]) ELSE ToLower(s[i])>>
         \o CamelFrom(s, i + 1, TRUE, "Boundary")
    ELSE IF NextMode(s[i], mode) = "Lowercase" /\ s[i + 1] \in Upper
    THEN <<IF start THEN ToUpper(s[i]) ELSE ToLower(s[i])>>
         \o CamelFrom(s, i + 1, TRUE, "Boundary")
    ELSE IF mode = "Uppercase" /\ s[i] \in Upper /\ s[i + 1] \in Lower
    THEN <<ToUpper(s[i])>> \o CamelFrom(s, i + 1, FALSE, "Boundary")
    ELSE <<IF start THEN ToUpper(s[i]) ELSE ToLower(s[i])>>
         \o CamelFrom(s, i + 1, FALSE, NextMode(s[i], mode))

\* IdentExt::to_upper_camel_case
to_upper_camel_case(ident) == CamelFrom(ident, 1, TRUE, "Boundary")

(***************************************************************************)
(* UnionFn::expand (expand.rs).  The generated code is represented by its  *)
(* structure: for each generated item the identifiers it is made of.       *)
(***************************************************************************)
\* expand_union_fn_enum_variants: 'Variant { binding: type, .. }'
expand_union_fn_enum_variants(items, st) ==
    [i \in 1..Len(methods(items)) |-> LET m == methods(items)[i] IN
        [variant |-> to_upper_camel_case(m.ident), fields |-> ident_inputs(m, st)]]

\* expand_union_fn_enum_constructors:
\* 'pub fn name(params) -> Self { Self::Variant { fields } }'
expand_union_fn_enum_constructors(items, st) ==
    [i \in 1..Len(methods(items)) |-> LET m == methods(items)[i] IN
        [name |-> m.ident, params |-> ident_inputs(m, st),
         variant |-> to_upper_camel_case(m.ident), fields |-> input_bindings(m, st)]]

\* expand_union_fn_enum_call_impl_arms:
\* 'Self::Variant { bindings } => Impls::name(ctx, bindings)'
expand_union_fn_enum_call_impl_arms(items, st) ==
    [i \in 1..Len(methods(items)) |-> LET m == methods(items)[i] IN
        [variant |-> to_upper_camel_case(m.ident), bindings |-> input_bindings(m, st),
         callee |-> m.ident, ctx_param |-> get_context(st).some,
         call_args |-> input_bindings(m, st)]]

\* expand_union_fn_enum_call_impl that implements CallWithContext when an
\* Output is registered.
expand_union_fn_enum_call_impl_by_output(st) ==
    IF get_output(st).some
    THEN [trait |-> "CallWithContext", Context |-> get_context(st)]
    ELSE [trait |-> "Call", Context |-> NoneV]

\* expand_union_fn_enum_call_impl: the trait implemented for the enum,
\* CallWithContext with 'type Context' and 'call(self, ctx)' when a Context
\* is registered, else Call with 'call(self)'.
expand_union_fn_enum_call_impl(st) ==
    IF get_context(st).some
    THEN [trait |-> "CallWithContext", Context |-> get_context(st)]
    ELSE [trait |-> "Call", Context |-> NoneV]

\* expand_call_impl: the trait implemented for the optimized type, chosen
\* in the same way.
expand_call_impl(st) ==
    IF get_context(st).some
    THEN [trait |-> "CallWithContext", Context |-> get_context(st)]
    ELSE [trait |-> "Call", Context |-> NoneV]

\* expand_union_fn_opt_into_opt_arms with the arguments of the constructor
\* call in reverse order.
expand_union_fn_opt_into_opt_arms_reversed(items, st) ==
    [i \in 1..Len(methods(items)) |-> LET m == methods(items)[i] IN
        [variant |-> to_upper_camel_case(m.ident), fields |-> input_bindings(m, st),
         callee |-> m.ident,
         call_args |-> [j \in 1..Len(input_bindings(m, st)) |->
                          input_bindings(m, st)[Len(input_bindings(m, st)) + 1 - j]]]]

\* expand_union_fn_opt_into_opt_arms:
\* 'Self::Variant { fields } => Opt::name(fields)'
expand_union_fn_opt_into_opt_arms(items, st) ==
    [i \in 1..Len(methods(items)) |-> LET m == methods(items)[i] IN
        [variant |-> to_upper_camel_case(m.ident), fields |-> input_bindings(m, st),
         callee |-> m.ident, call_args |-> input_bindings(m, st)]]

\* expand_constructors with the delegator of the first method as handler of
\* every constructor.
expand_constructors_first_handler(items, st) ==
    [i \in 1..Len(methods(items)) |-> LET m == methods(items)[i] IN
        [name |-> m.ident, params |-> ident_inputs(m, st),
         handler |-> methods(items)[1].ident, args_callee |-> m.ident,
         call_args |-> input_bindings(m, st)]]

\* expand_constructors:
\* 'pub fn name(params) -> Self { Self { handler: Delegator::name, args: Args::name(bindings) } }'
expand_constructors(items, st) ==
    [i \in 1..Len(methods(items)) |-> LET m == methods(items)[i] IN
        [name |-> m.ident, params |-> ident_inputs(m, st),
         handler |-> m.ident, args_callee |-> m.ident,
         call_args |-> input_bindings(m, st)]]

\* expand_union_args_variants over all inputs of the method, the context
\* parameter included.
expand_union_args_variants_all_inputs(items, st) ==
    [i \in 1..Len(methods(items)) |-> LET m == methods(items)[i] IN
        [field |-> m.ident,
         ty |-> make_tuple_type([k \in 1..Len(m.inputs) |-> m.inputs[k].ty])]]

\* expand_union_args_variants: 'name: (types)'
expand_union_args_variants(items, st) ==
    [i \in 1..Len(methods(items)) |-> LET m == methods(items)[i] IN
        [field |-> m.ident, ty |-> make_tuple_type(input_types(m, st))]]

\* expand_union_args_constructors that stores the bindings in reverse order.
expand_union_args_constructors_reversed(items, st) ==
    [i \in 1..Len(methods(items)) |-> LET m == methods(items)[i] IN
        [name |-> m.ident, params |-> ident_inputs(m, st),
         field |-> m.ident,
         value |-> make_tuple_type([j \in 1..Len(input_bindings(m, st)) |->
                     input_bindings(m, st)[Len(input_bindings(m, st)) + 1 - j]])]]

\* expand_union_args_constructors:
\* 'pub fn name(params) -> Self { Self { name: (bindings) } }'
expand_union_args_constructors(items, st) ==
    [i \in 1..Len(methods(items)) |-> LET m == methods(items)[i] IN
        [name |-> m.ident, params |-> ident_inputs(m, st),
         field |-> m.ident, value |-> make_tuple_type(input_bindings(m, st))]]

\* expand_union_fn_delegate:
\* 'fn name(ctx, args) { let (bindings) = unsafe { args.name }; Impls::name(ctx, bindings) }'
expand_union_fn_delegate(items, st) ==
    [i \in 1..Len(methods(items)) |-> LET m == methods(items)[i] IN
        [name |-> m.ident, ctx_param |-> context(m, st),
         pattern |-> make_tuple_type(input_bindings(m, st)), field |-> m.ident,
         callee |-> m.ident, call_args |-> input_bindings(m, st)]]

\* expand_union_fn_impls: 'fn name(ctx, params) -> Output body'
expand_union_fn_impls(items, st) ==
    [i \in 1..Len(methods(items)) |-> LET m == methods(items)[i] IN
        [name |-> m.ident, ctx_param |-> context(m, st),
         params |-> inputs(m, st), body |-> m.default]]

\* expand_reflection: the Output type of the enum and of the optimized type.
expand_reflection(st) ==
    [opt_output |-> get_output_type(st), enum_output |-> get_output_type(st)]

\* The expansion panics: UnionFnMethod::inputs and ::context meet a self
\* receiver, ::context indexes the first input of a method without inputs,
\* ::impl_block expects a missing body, or get_context / get_output unwrap a
\* missing default.
ExpandPanics(items, st) ==
    \/ st.context.some /\ st.context.v.default = "none"
    \/ st.output.some /\ st.output.v.default = "none"
    \/ \E i \in 1..Len(methods(items)) :
         \/ \E n \in 1..Len(methods(items)[i].inputs) :
              methods(items)[i].inputs[n].kind = "Receiver"
         \/ get_context(st).some /\ Len(methods(items)[i].inputs) = 0
         \/ methods(items)[i].default = "none"

\* The proc. macro panicked: the compiler reports the panic, no item.
Panicked == [kind |-> "panic"]

\* UnionFn::expand
expand(items, st) ==
    IF ExpandPanics(items, st) THEN Panicked ELSE
    [kind |-> "code",
     enum_variants     |-> expand_union_fn_enum_variants(items, st),
     enum_constructors |-> expand_union_fn_enum_constructors(items, st),
     enum_call_impl    |-> expand_union_fn_enum_call_impl(st),
     enum_call_arms    |-> expand_union_fn_enum_call_impl_arms(items, st),
     opt_call_impl     |-> expand_call_impl(st),
     into_opt_arms     |-> expand_union_fn_opt_into_opt_arms(items, st),
     opt_constructors  |-> expand_constructors(items, st),
     args_variants     |-> expand_union_args_variants(items, st),
     args_constructors |-> expand_union_args_constructors(items, st),
     delegates         |-> expand_union_fn_delegate(items, st),
     impls             |-> expand_union_fn_impls(items, st),
     reflection        |-> expand_reflection(st)]

\* syn::Error::to_compile_error: one compile_error! per message, no item.
to_compile_error(err) == [kind |-> "compile_error", errors |-> err]

\* Nothing has been emitted yet.
NoOutput == [kind |-> "none"]

(***************************************************************************)
(* Values of the generated program.                                        *)
(***************************************************************************)
\* A value: its type with its number, truth value or elements.
Unit == [ty |-> "unit", v |-> 0, b |-> FALSE, elems |-> <<>>]
I64(n) == [ty |-> "i64", v |-> n, b |-> FALSE, elems |-> <<>>]
I32(n) == [ty |-> "i32", v |-> n, b |-> FALSE, elems |-> <<>>]
Usize(n) == [ty |-> "usize", v |-> n, b |-> FALSE, elems |-> <<>>]
Bool(b) == [ty |-> "bool", v |-> 0, b |-> b, elems |-> <<>>]
Arr(ty, s) == [ty |-> ty, v |-> 0, b |-> FALSE, elems |-> s]

\* GetOr0 that gives the last element for an index out of range.
GetOr0_clamped(elems, index) ==
    IF index \in 0..(Len(elems) - 1) THEN elems[index + 1] ELSE elems[Len(elems)]

\* slice::get(index).copied().unwrap_or(0)
GetOr0(elems, index) == IF index \in 0..(Len(elems) - 1) THEN elems[index + 1] ELSE 0

\* 'value as usize' for an i64 value: a negative value becomes a value of at
\* least 2^63, represented by the largest integer of the model checker.
AsUsize(n) == IF n < 0 THEN 2147483647 ELSE n

\* i64 division, which truncates towards zero.
DivTrunc(n, d) == IF n >= 0 THEN n \div d ELSE -((-n) \div d)

\* p0 + p1 + .. of trait Test (many-args.rs).
RECURSIVE SumOf(_)
SumOf(a) == IF Len(a) = 0 THEN 0 ELSE a[1].v + SumOf(Tail(a))

\* The bodies of the methods of the traits Counter (with-context.rs) and
\* MathFn (no-context.rs): the output and the context after the body ran
\* with context c and the arguments a, in declared order.
BodyEval(body, c, a) ==
    CASE body = "bump_by"    -> [out |-> Unit, ctx |-> Some(I64(c.v.v + a[1].v))]
      [] body = "select_ctx" -> [out |-> Unit, ctx |-> Some(I64(GetOr0(a[1].elems, AsUsize(c.v.v))))]
      [] body = "div2"       -> [out |-> Unit, ctx |-> Some(I64(DivTrunc(c.v.v, 2)))]
      [] body = "reset"      -> [out |-> Unit, ctx |-> Some(I64(0))]
      [] body = "one"        -> [out |-> I32(1), ctx |-> c]
      [] body = "add"        -> [out |-> I32(a[1].v + a[2].v), ctx |-> c]
      [] body = "select"     -> [out |-> IF a[1].b THEN a[2] ELSE a[3], ctx |-> c]
      [] body = "at"         -> [out |-> I32(GetOr0(a[2].elems, a[1].v)), ctx |-> c]
      [] body = "sum"        -> [out |-> I32(SumOf(a)), ctx |-> c]

(***************************************************************************)
(* The meaning of the generated items (the token streams quoted in         *)
(* expand.rs), for the generated code `code`.                              *)
(***************************************************************************)
\* The generated function, match arm or union field with the given name.
ByName(seq, name) == seq[CHOOSE i \in 1..Len(seq) : seq[i].name = name]
ByVariant(seq, variant) == seq[CHOOSE i \in 1..Len(seq) : seq[i].variant = variant]

\* The value bound to identifier `name` when the identifiers `names` are
\* bound to the values `vals`.
Bound(names, vals, name) == vals[CHOOSE i \in 1..Len(names) : names[i] = name]

\* The values of the identifiers `wanted` under that binding.
BoundAll(names, vals, wanted) ==
    [i \in 1..Len(wanted) |-> Bound(names, vals, wanted[i])]

\* The names of the parameters 'binding: type'.
ParamNames(params) == [i \in 1..Len(params) |-> params[i].pat]

\* Impls::name(ctx, args): the body of the method with its parameters bound
\* to the arguments by position.
ImplsCall(code, name, c, argv) ==
    BodyEval(ByName(code.impls, name).body, c, argv)

\* The enum constructor 'name(params)': 'Self::Variant { fields }'.
EnumConstructor(code, name, argv) ==
    LET f == ByName(code.enum_constructors, name) IN
    [variant |-> f.variant,
     fields  |-> [i \in 1..Len(f.fields) |->
                    [name |-> f.fields[i],
                     val  |-> Bound(ParamNames(f.params), argv, f.fields[i])]]]

\* The values of the fields `wanted` of an enum value.
FieldValues(e, wanted) ==
    [i \in 1..Len(wanted) |-> ByName(e.fields, wanted[i]).val]

\* Call::call / CallWithContext::call of the enum: the arm of the variant.
EnumCall(code, e, c) ==
    LET arm == ByVariant(code.enum_call_arms, e.variant) IN
    ImplsCall(code, arm.callee, c,
              BoundAll(arm.bindings, FieldValues(e, arm.bindings), arm.call_args))

\* The constructor 'name(params)' of the packed arguments:
\* 'Self { name: (bindings) }'.
ArgsConstructor(code, name, argv) ==
    LET f == ByName(code.args_constructors, name) IN
    [field |-> f.field,
     value |-> [shape |-> f.value.shape,
                elems |-> BoundAll(ParamNames(f.params), argv, f.value.elems)]]

\* The constructor 'name(params)' of the optimized type:
\* 'Self { handler: Delegator::name, args: Args::name(bindings) }'.
OptConstructor(code, name, argv) ==
    LET f == ByName(code.opt_constructors, name) IN
    [handler |-> f.handler,
     args    |-> ArgsConstructor(code, f.args_callee,
                                 BoundAll(ParamNames(f.params), argv, f.call_args))]

\* IntoOpt::into_opt: the arm of the variant.
into_opt(code, e) ==
    LET arm == ByVariant(code.into_opt_arms, e.variant) IN
    OptConstructor(code, arm.callee,
                   BoundAll(arm.fields, FieldValues(e, arm.fields), arm.call_args))

\* Reading the packed arguments through the field a delegator names is
\* defined when that field was the one written and its value has the shape
\* of the pattern of the delegator.
DefinedRead(d, args) ==
    /\ args.field = d.field
    /\ args.value.shape = d.pattern.shape
    /\ Len(args.value.elems) = Len(d.pattern.elems)

\* Delegator::name(ctx, args):
\* 'let (bindings) = unsafe { args.name }; Impls::name(ctx, bindings)'.
Delegate(code, name, c, args) ==
    LET d == ByName(code.delegates, name) IN
    ImplsCall(code, d.callee, c, BoundAll(d.pattern.elems, args.value.elems, d.call_args))

\* What a read of the packed arguments through another field can give.
AnyValue == { Unit, I64(0), I64(7), I32(0), I32(7) }

\* Call::call / CallWithContext::call of the optimized type,
\* '(self.handler)(ctx, &self.args)': the possible results.  A read of the
\* union through a field that was not written is undefined behaviour.
OptCall(code, o, c) ==
    IF DefinedRead(ByName(code.delegates, o.handler), o.args)
    THEN { Delegate(code, o.handler, c, o.args) }
    ELSE { [out |-> v, ctx |-> w] : v \in AnyValue, w \in {c, Some(I64(7))} }

(***************************************************************************)
(* The traits the macro is applied to.                                     *)
(***************************************************************************)
\* Associated types: well formed Context and Output declarations, and one
\* declaration for each unsupported feature.
Flawed(item, field) == [item EXCEPT ![field] = TRUE]

TypeVariants(ident) ==
    { TypeItem(ident, "i64"), TypeItem(ident, "bool"), TypeItem(ident, "none"),
      Flawed(TypeItem(ident, "i64"), "generics"),
      Flawed(TypeItem(ident, "i64"), "where_clause"),
      Flawed(TypeItem(ident, "i64"), "bounds") }

TypeItems == TypeVariants("Context") \cup TypeVariants("Output") \cup {TypeItem("Other", "i64")}

\* Methods: with and without context parameter, with the return types the
\* analysis distinguishes, and one method for each unsupported feature.
m_ctx       == MethodItem(<<"a">>, <<CtxArg>>, "Default", "reset")
m_ctx_out   == MethodItem(<<"b">>, <<CtxArg, I64Arg(<<"x">>)>>, "Self::Output", "bump_by")
m_i64       == MethodItem(<<"c">>, <<>>, "i64", "one")
m_bool      == MethodItem(<<"d">>, <<I64Arg(<<"x">>)>>, "bool", "is_zero")
m_out       == MethodItem(<<"e">>, <<>>, "Self::Output", "one")
m_unit      == MethodItem(<<"f">>, <<>>, "Default", "nop")
m_badctx    == MethodItem(<<"g">>, <<Typed("Ident", <<"c">>, "&mut i64")>>, "Default", "reset")
m_self      == MethodItem(<<"h">>, <<Receiver>>, "Default", "nop")
m_nobody    == MethodItem(<<"i">>, <<>>, "i64", "none")
m_self_late == MethodItem(<<"j">>, <<CtxArg, Receiver>>, "Default", "reset")

MethodItems ==
    { m_ctx, m_ctx_out, m_i64, m_bool, m_out, m_unit, m_badctx, m_self, m_nobody,
      m_self_late,
      Flawed(m_i64, "generics"), Flawed(m_i64, "where_clause"), Flawed(m_i64, "variadic"),
      Flawed(m_i64, "constness"), Flawed(m_i64, "asyncness"), Flawed(m_i64, "unsafety"),
      [m_i64 EXCEPT !.abi = "C"] }

\* The items of the traits of specification Spec: every method, with the well
\* formed declarations and one malformed declaration.
ItemUniverse ==
    MethodItems \cup
    { TypeItem("Context", "i64"), TypeItem("Output", "i64"), TypeItem("Context", "none"),
      ConstItem }

\* The items of the traits of specification SpecDecl: every associated type,
\* with some valid and some invalid methods.
DeclUniverse ==
    TypeItems \cup { m_ctx, m_i64, m_badctx, m_nobody, ConstItem }

\* The trait headers: the accepted one and one for each rejected feature.
Headers ==
    { GoodHeader } \cup
    { [GoodHeader EXCEPT ![f] = TRUE] :
        f \in {"args", "unsafety", "auto_token", "generics", "supertraits"} }

\* The items of a trait in source order, each with its position.
WithPos(seq) == [i \in 1..Len(seq) |-> seq[i] @@ [pos |-> i]]

SeqsUpTo(S, n) == UNION { [1..k -> S] : k \in 0..n }

(***************************************************************************)
(* The traits of the tests and the values they are called with.            *)
(***************************************************************************)
id_value    == <<"v","a","l","u","e">>
id_by       == <<"b","y">>
id_choices  == <<"c","h","o","i","c","e","s">>
id_bump_by  == <<"b","u","m","p","_","b","y">>
id_select   == <<"s","e","l","e","c","t">>
id_div2     == <<"d","i","v","2">>
id_reset    == <<"r","e","s","e","t">>
id_one      == <<"o","n","e">>
id_add      == <<"a","d","d">>
id_at       == <<"a","t">>
id_lhs      == <<"l","h","s">>
id_rhs      == <<"r","h","s">>
id_flag     == <<"f","l","a","g">>
id_if_true  == <<"i","f","_","t","r","u","e">>
id_if_false == <<"i","f","_","f","a","l","s","e">>
id_index    == <<"i","n","d","e","x">>
id_elements == <<"e","l","e","m","e","n","t","s">>

ValueArg == Typed("Ident", id_value, "&mut Self::Context")

\* trait Counter of tests/ui/pass/with-context.rs
Counter ==
    << TypeItem("Context", "i64"),
       MethodItem(id_bump_by, <<ValueArg, Typed("Ident", id_by, "i64")>>, "Default", "bump_by"),
       MethodItem(id_select, <<ValueArg, Typed("Ident", id_choices, "[i64; 4]")>>, "Default",
                  "select_ctx"),
       MethodItem(id_div2, <<ValueArg>>, "Default", "div2"),
       MethodItem(id_reset, <<ValueArg>>, "Default", "reset") >>

\* trait MathFn of tests/ui/pass/no-context.rs
MathFn ==
    << MethodItem(id_one, <<>>, "i32", "one"),
       MethodItem(id_add, <<Typed("Ident", id_lhs, "i32"), Typed("Ident", id_rhs, "i32")>>,
                  "i32", "add"),
       MethodItem(id_select, <<Typed("Ident", id_flag, "bool"), Typed("Ident", id_if_true, "i32"),
                               Typed("Ident", id_if_false, "i32")>>, "i32", "select"),
       MethodItem(id_at, <<Typed("Ident", id_index, "usize"),
                           Typed("Ident", id_elements, "[i32; 4]")>>, "i32", "at") >>

\* trait Counter with a method that lacks the context parameter.
BadCounter == Counter \o << MethodItem(id_one, <<>>, "Default", "one") >>

\* trait Counter with the Context declared between its methods.
CounterLate == << Counter[2], Counter[3], Counter[1], Counter[4], Counter[5] >>

\* trait Test of tests/ui/pass/many-args.rs: sum0(), sum1(p0), sum2(p0, p1), ..
SumMethod(n) ==
    MethodItem(<<"s", "u", "m">> \o Digits(n),
               [k \in 1..n |-> Typed("Ident", <<"p">> \o Digits(k - 1), "i32")],
               "i32", "sum")

ManyArgs == [n \in 1..(MaxArgs + 1) |-> SumMethod(n - 1)]

TestTraits == { Counter, MathFn, BadCounter, CounterLate, ManyArgs }

\* The argument values the generated constructors are called with, by type.
ArgValues(ty) ==
    CASE ty = "i64"      -> { I64(-2), I64(1), I64(5) }
      [] ty = "i32"      -> { I32(-3), I32(1), I32(2) }
      [] ty = "usize"    -> { Usize(1), Usize(4) }
      [] ty = "bool"     -> { Bool(TRUE), Bool(FALSE) }
      [] ty = "[i64; 4]" -> { Arr("[i64; 4]", <<11, 22, 33, 44>>) }
      [] ty = "[i32; 4]" -> { Arr("[i32; 4]", <<11, 22, 33, 44>>) }

AllArgValues ==
    UNION { ArgValues(ty) : ty \in {"i64", "i32", "usize", "bool", "[i64; 4]", "[i32; 4]"} }

\* The argument lists for the parameters 'binding: type'.
ArgTuples(params) ==
    { a \in [1..Len(params) -> AllArgValues] :
        \A i \in 1..Len(params) : a[i] \in ArgValues(params[i].ty) }

\* The context values the generated types are called with: values of the
\* Context type, none when the trait has no Context.
CtxValues(code) ==
    IF code.opt_call_impl.trait = "CallWithContext"
    THEN { Some(I64(n)) : n \in {-3, 0, 1, 2, 3, 4, 5} }
    ELSE { NoneV }

(***************************************************************************)
(* State.                                                                  *)
(***************************************************************************)
VARIABLES
    header,   \* the trait header and the macro arguments
    source,   \* the trait items as they were parsed
    items,    \* item.items of the UnionFn
    state,    \* the UnionFnState
    pc,       \* "new", "analyze", "failed" or "done"
    idx,      \* index into items of the next item to analyse
    error,    \* the error UnionFn::new returned, <<>> if none
    checked,  \* positions of the items analyze_item accepted
    out,      \* the token stream union_fn returned
    tv,       \* a value of the generated enum, if one was made
    opt,      \* a value of the generated optimized type, if one was made
    cpy,      \* a copy of a value of the optimized type, if one was made
    ctx,      \* the context after the last call
    ret,      \* the output of the last call
    made,     \* for tv, opt and cpy: the constructor and arguments they come from
    called,   \* the last call: the value called, its origin and the context given
    second,   \* another invocation of the macro: its header, source, items, state,
              \* pc, idx, error and out
    calc,     \* the Calculator of calculator.rs and the calculation it runs
    ectx      \* the ExecutionContext of bytecode.rs and its last instruction

pvars == <<header, source, items, state, pc, idx, error, checked, out>>

rvars == <<tv, opt, cpy, ctx, ret, made, called>>

tvars == <<calc, ectx>>

vars == <<pvars, rvars, second, tvars>>

\* No other invocation of the macro.
Idle == [pc |-> "idle"]

\* No Calculator and no ExecutionContext has been made.
NoTests == calc = [status |-> "none"] /\ ectx = [status |-> "none"]

InitPipeline ==
    /\ items = source
    /\ state = DefaultState
    /\ pc = "new"
    /\ idx = 1
    /\ error = <<>>
    /\ checked = {}
    /\ out = NoOutput
    /\ tv = NoneV
    /\ opt = NoneV
    /\ cpy = NoneV
    /\ ctx = NoneV
    /\ ret = NoneV
    /\ made = [tv |-> NoneV, opt |-> NoneV, cpy |-> NoneV]
    /\ called = NoneV

InitSingle == InitPipeline /\ second = Idle /\ NoTests

\* The macro is applied to a trait with at most MaxItems items of universe U;
\* the rejected headers are tried on the traits with at most one item.
InitWith(U) ==
    /\ header \in Headers
    /\ source \in { WithPos(s) : s \in SeqsUpTo(U, MaxItems) }
    /\ header # GoodHeader => Len(source) <= 1
    /\ InitSingle

Init == InitWith(ItemUniverse)

InitDecl == InitWith(DeclUniverse)

\* Method names in snake case, in mixed case and with digits, and the
\* traits of up to two methods with these names (or without body).
MaxNamed == 2

NameUniverse ==
    { <<"f", "_", "a">>, <<"f", "A">>, <<"f", "a">>, <<"f", "_", "b">>,
      <<"a", "1", "b">>, <<"a", "1", "B">>, <<"A", "1", "B">> }

NamedMethod(name) == MethodItem(name, <<>>, "i64", "one")

InitNames ==
    /\ header = GoodHeader
    /\ source \in { WithPos(s) :
                      s \in SeqsUpTo({ NamedMethod(n) : n \in NameUniverse } \cup {m_nobody}, MaxNamed) }
    /\ InitSingle

\* The patterns of method inputs: an identifier (syn::Pat::Ident), the path
\* 'Self' (syn::Pat::Path of one identifier), a wildcard and a tuple, and
\* the traits of up to MaxNamed methods of up to MaxNamed such inputs (or without
\* body).
PatUniverse ==
    { Typed("Ident", <<"x">>, "i64"), Typed("Path", <<"S", "e", "l", "f">>, "i64"),
      Typed("Wild", <<"_">>, "i64"), Typed("Tuple", <<"(", "a", ",", "b", ")">>, "(i64, i64)") }

PatMethod(name, ins) == MethodItem(name, ins, "i64", "one")

InitPats ==
    /\ header = GoodHeader
    /\ source \in { WithPos(s) :
                      s \in SeqsUpTo({ PatMethod(<<"f">>, ins) : ins \in SeqsUpTo(PatUniverse, MaxNamed) }
                                         \cup {m_nobody}, MaxNamed) }
    /\ InitSingle

\* The macro is applied to one of the traits of the tests.
InitRun ==
    /\ header = GoodHeader
    /\ source \in { WithPos(s) : s \in TestTraits }
    /\ InitSingle

(***************************************************************************)
(* The macro invocation, analyse::union_fn, in steps.                      *)
(***************************************************************************)
\* UnionFn::new up to the call of analyze_items: the header checks, the
\* fresh state and the sorting of the items.
New ==
    /\ pc = "new"
    /\ IF analyze_trait(header) # <<>>
       THEN /\ error' = analyze_trait(header)
            /\ pc' = "failed"
            /\ UNCHANGED <<items, state>>
       ELSE /\ state' = DefaultState
            /\ items' = sort_items(items)
            /\ pc' = "analyze"
            /\ UNCHANGED error
    /\ UNCHANGED <<header, source, idx, checked, out>>
    /\ UNCHANGED <<rvars, second, tvars>>

\* AnalyzeItem that goes on after an error.
AnalyzeItem_ignore_error ==
    /\ pc = "analyze"
    /\ idx <= Len(items)
    /\ LET r == analyze_item(state, items[idx]) IN
       /\ state' = r.state
       /\ idx' = idx + 1
       /\ checked' = IF r.ok THEN checked \cup {items[idx].pos} ELSE checked
    /\ UNCHANGED <<header, source, items, out, pc, error>>
    /\ UNCHANGED <<rvars, second, tvars>>

\* One iteration of try_for_each in analyze_items: the first error ends
\* the analysis.
AnalyzeItem ==
    /\ pc = "analyze"
    /\ idx <= Len(items)
    /\ LET r == analyze_item(state, items[idx]) IN
       /\ state' = r.state
       /\ IF r.ok
          THEN /\ idx' = idx + 1
               /\ checked' = checked \cup {items[idx].pos}
               /\ UNCHANGED <<pc, error>>
          ELSE /\ error' = r.err
               /\ pc' = "failed"
               /\ UNCHANGED <<idx, checked>>
    /\ UNCHANGED <<header, source, items, out>>
    /\ UNCHANGED <<rvars, second, tvars>>

\* analyze_items returned Ok: UnionFn::new returns the UnionFn and union_fn
\* expands it.
Expand ==
    /\ pc = "analyze"
    /\ idx > Len(items)
    /\ out' = expand(items, state)
    /\ pc' = "done"
    /\ UNCHANGED <<header, source, items, state, idx, error, checked>>
    /\ UNCHANGED <<rvars, second, tvars>>

\* UnionFn::new returned an error: union_fn turns it into a compile error.
CompileError ==
    /\ pc = "failed"
    /\ out' = to_compile_error(error)
    /\ pc' = "done"
    /\ UNCHANGED <<header, source, items, state, idx, error, checked>>
    /\ UNCHANGED <<rvars, second, tvars>>

(***************************************************************************)
(* The use of the generated types by a program: a value is constructed,    *)
(* as enum or as optimized type, converted, copied and called.             *)
(***************************************************************************)
(***************************************************************************)
(* Two invocations of the macro in one compilation.  Each call of union_fn *)
(* works on its own arguments and locals.                                  *)
(***************************************************************************)
\* UnionFn::analyze_items: try_for_each over the items from index i on.
RECURSIVE analyze_items(_, _, _)
analyze_items(st, its, i) ==
    IF i > Len(its) THEN Ok(st)
    ELSE IF analyze_item(st, its[i]).ok
    THEN analyze_items(analyze_item(st, its[i]).state, its, i + 1)
    ELSE analyze_item(st, its[i])

\* analyse::union_fn: UnionFn::new(args, item).map(expand), or the compile
\* error.
union_fn(hdr, src) ==
    IF analyze_trait(hdr) # <<>> THEN to_compile_error(analyze_trait(hdr))
    ELSE IF analyze_items(DefaultState, sort_items(src), 1).ok
    THEN expand(sort_items(src), analyze_items(DefaultState, sort_items(src), 1).state)
    ELSE to_compile_error(analyze_items(DefaultState, sort_items(src), 1).err)

\* The traits of the two invocations.
TwoTraits ==
    { << TypeItem("Context", "i64"), m_ctx >>,
      << m_ctx, TypeItem("Context", "i64") >>,
      << TypeItem("Context", "i64"), m_i64 >>,
      << TypeItem("Output", "i64"), m_out >>,
      << m_i64, m_bool >>,
      << m_i64, Flawed(m_i64, "unsafety") >> }

SecondInit(hdr, src) ==
    [header |-> hdr, source |-> src, items |-> src, state |-> DefaultState,
     pc |-> "new", idx |-> 1, error |-> <<>>, out |-> NoOutput, began |-> "no"]

InitTwo ==
    /\ header \in { GoodHeader, [GoodHeader EXCEPT !.generics = TRUE] }
    /\ source \in { WithPos(s) : s \in TwoTraits }
    /\ InitPipeline
    /\ second \in { SecondInit(GoodHeader, WithPos(s)) : s \in TwoTraits }
    /\ NoTests

\* New of the second invocation with the state of the first invocation in
\* place of a fresh state.
SecondNew_shared_state ==
    /\ second.pc = "new"
    /\ second' =
        IF analyze_trait(second.header) # <<>>
        THEN [second EXCEPT !.error = analyze_trait(second.header), !.pc = "failed",
                            !.began = pc]
        ELSE [second EXCEPT !.state = state, !.items = sort_items(second.items),
                            !.pc = "analyze", !.began = pc]
    /\ UNCHANGED <<pvars, rvars, tvars>>

\* UnionFn::new of the second invocation up to the call of analyze_items;
\* 'began' records where the first invocation was at that moment.
SecondNew ==
    /\ second.pc = "new"
    /\ second' =
        IF analyze_trait(second.header) # <<>>
        THEN [second EXCEPT !.error = analyze_trait(second.header), !.pc = "failed",
                            !.began = pc]
        ELSE [second EXCEPT !.state = DefaultState, !.items = sort_items(second.items),
                            !.pc = "analyze", !.began = pc]
    /\ UNCHANGED <<pvars, rvars, tvars>>

\* One iteration of try_for_each in analyze_items of the second invocation.
SecondAnalyzeItem ==
    /\ second.pc = "analyze"
    /\ second.idx <= Len(second.items)
    /\ LET r == analyze_item(second.state, second.items[second.idx]) IN
       second' =
        IF r.ok
        THEN [second EXCEPT !.state = r.state, !.idx = second.idx + 1]
        ELSE [second EXCEPT !.state = r.state, !.error = r.err, !.pc = "failed"]
    /\ UNCHANGED <<pvars, rvars, tvars>>

\* The second invocation expands its UnionFn.
SecondExpand ==
    /\ second.pc = "analyze"
    /\ second.idx > Len(second.items)
    /\ second' = [second EXCEPT !.out = expand(second.items, second.state), !.pc = "done"]
    /\ UNCHANGED <<pvars, rvars, tvars>>

\* The second invocation turns its error into a compile error.
SecondCompileError ==
    /\ second.pc = "failed"
    /\ second' = [second EXCEPT !.out = to_compile_error(second.error), !.pc = "done"]
    /\ UNCHANGED <<pvars, rvars, tvars>>

Generated == pc = "done" /\ out.kind = "code"

\* 'Trait::name(args)': a constructor of the enum is called.
MakeEnum ==
    /\ Generated
    /\ ~tv.some /\ ~opt.some
    /\ \E i \in 1..Len(out.enum_constructors) :
        \E argv \in ArgTuples(out.enum_constructors[i].params) :
            /\ tv' = Some(EnumConstructor(out, out.enum_constructors[i].name, argv))
            /\ made' = [made EXCEPT !.tv =
                            Some([m |-> out.enum_constructors[i].name, args |-> argv])]
    /\ UNCHANGED <<pvars, second, tvars, opt, cpy, ctx, ret, called>>

\* 'Opt::name(args)': a constructor of the optimized type is called.
MakeOpt ==
    /\ Generated
    /\ ~tv.some /\ ~opt.some
    /\ \E i \in 1..Len(out.opt_constructors) :
        \E argv \in ArgTuples(out.opt_constructors[i].params) :
            /\ opt' = Some(OptConstructor(out, out.opt_constructors[i].name, argv))
            /\ made' = [made EXCEPT !.opt =
                            Some([m |-> out.opt_constructors[i].name, args |-> argv])]
    /\ UNCHANGED <<pvars, second, tvars, tv, cpy, ctx, ret, called>>

\* 'tv.into_opt()'
IntoOpt ==
    /\ Generated
    /\ tv.some /\ ~opt.some
    /\ opt' = Some(into_opt(out, tv.v))
    /\ made' = [made EXCEPT !.opt = made.tv]
    /\ UNCHANGED <<pvars, second, tvars, tv, cpy, ctx, ret, called>>

\* 'let cpy = opt;' (the optimized type is Copy)
CopyOpt ==
    /\ Generated
    /\ opt.some /\ ~cpy.some
    /\ cpy' = opt
    /\ made' = [made EXCEPT !.cpy = made.opt]
    /\ UNCHANGED <<pvars, second, tvars, tv, opt, ctx, ret, called>>

\* 'tv.call(&mut ctx)' or 'tv.call()'
CallEnum ==
    /\ Generated
    /\ tv.some
    /\ \E c \in CtxValues(out) :
        /\ ret' = Some(EnumCall(out, tv.v, c).out)
        /\ ctx' = EnumCall(out, tv.v, c).ctx
        /\ called' = Some([via |-> "enum", from |-> made.tv.v, ctx0 |-> c])
    /\ UNCHANGED <<pvars, second, tvars, tv, opt, cpy, made>>

\* 'opt.call(&mut ctx)' or 'opt.call()'
CallOpt ==
    /\ Generated
    /\ opt.some
    /\ \E c \in CtxValues(out) :
        \E r \in OptCall(out, opt.v, c) :
            /\ ret' = Some(r.out)
            /\ ctx' = r.ctx
            /\ called' = Some([via |-> "opt", from |-> made.opt.v, ctx0 |-> c])
    /\ UNCHANGED <<pvars, second, tvars, tv, opt, cpy, made>>

\* 'cpy.call(&mut ctx)' or 'cpy.call()'
CallCopy ==
    /\ Generated
    /\ cpy.some
    /\ \E c \in CtxValues(out) :
        \E r \in OptCall(out, cpy.v, c) :
            /\ ret' = Some(r.out)
            /\ ctx' = r.ctx
            /\ called' = Some([via |-> "cpy", from |-> made.cpy.v, ctx0 |-> c])
    /\ UNCHANGED <<pvars, second, tvars, tv, opt, cpy, made>>

(***************************************************************************)
(* The stack calculator of tests/ui/pass/calculator.rs.  Its instructions  *)
(* are the methods of the trait Instr; a program is an array of them in    *)
(* their call-optimized form.  The values of the tests are small, so that  *)
(* wrapping_add and wrapping_mul never wrap.                               *)
(***************************************************************************)
MaxInput == 2

MaxProgram == 2

\* Result<_, ErrorCode>: Ok(v) and Err(code).
CalcOk(v) == [ok |-> TRUE, v |-> v, code |-> "none"]
CalcErr(code) == [ok |-> FALSE, v |-> 0, code |-> code]

\* A Calculator after a method, with what the method returned.
With(self, res) == [self |-> self, res |-> res]

\* Calculator::new
Calculator_new(capacity) == [stack |-> <<>>, ip |-> 0, capacity |-> capacity]

\* next_instr that leaves the instruction pointer where it is.
Calculator_next_instr_stay(self) == With(self, CalcOk("Continue"))

\* Calculator::next_instr
Calculator_next_instr(self) ==
    With([self EXCEPT !.ip = @ + 1], CalcOk("Continue"))

\* Calculator::get_back: the element at index depth from the back.
Calculator_get_back(self, depth) ==
    IF depth < Len(self.stack)
    THEN CalcOk(self.stack[Len(self.stack) - depth])
    ELSE CalcErr("StackUnderflow")

\* Calculator::pop_value
Calculator_pop_value(self) ==
    IF self.stack = <<>> THEN With(self, CalcErr("StackUnderflow"))
    ELSE With([self EXCEPT !.stack = SubSeq(@, 1, Len(@) - 1)],
              CalcOk(self.stack[Len(self.stack)]))

\* Calculator::push_value
Calculator_push_value(self, value) ==
    IF Len(self.stack) = self.capacity THEN With(self, CalcErr("StackOverflow"))
    ELSE With([self EXCEPT !.stack = Append(@, value)], CalcOk(0))

\* Instr::constant
Instr_constant(cx, value) ==
    IF ~Calculator_push_value(cx, value).res.ok
    THEN Calculator_push_value(cx, value)
    ELSE Calculator_next_instr(Calculator_push_value(cx, value).self)

\* Instr::add (wrapping_add is the sum: the values are small)
Instr_add(cx) ==
    LET rhs == Calculator_pop_value(cx)
        lhs == Calculator_pop_value(rhs.self)
        pushed == Calculator_push_value(lhs.self, lhs.res.v + rhs.res.v)
    IN  IF ~rhs.res.ok THEN rhs
        ELSE IF ~lhs.res.ok THEN lhs
        ELSE IF ~pushed.res.ok THEN pushed
        ELSE Calculator_next_instr(pushed.self)

\* Instr::mul (wrapping_mul is the product: the values are small)
Instr_mul(cx) ==
    LET rhs == Calculator_pop_value(cx)
        lhs == Calculator_pop_value(rhs.self)
        pushed == Calculator_push_value(lhs.self, lhs.res.v * rhs.res.v)
    IN  IF ~rhs.res.ok THEN rhs
        ELSE IF ~lhs.res.ok THEN lhs
        ELSE IF ~pushed.res.ok THEN pushed
        ELSE Calculator_next_instr(pushed.self)

\* Instr::dup
Instr_dup(cx, depth) ==
    LET value == Calculator_get_back(cx, depth)
        pushed == Calculator_push_value(cx, value.v)
    IN  IF ~value.ok THEN With(cx, value)
        ELSE IF ~pushed.res.ok THEN pushed
        ELSE Calculator_next_instr(pushed.self)

\* Instr::ret
Instr_ret(cx) == With(cx, CalcOk("Return"))

\* The instructions, as the constructors of Instr make them.
Instr(op, arg) == [op |-> op, arg |-> arg]

\* <InstrOpt as CallWithContext>::call: the call of the method the
\* instruction was made from, with its arguments.
Instr_call(instr, cx) ==
    CASE instr.op = "constant" -> Instr_constant(cx, instr.arg)
      [] instr.op = "add" -> Instr_add(cx)
      [] instr.op = "mul" -> Instr_mul(cx)
      [] instr.op = "dup" -> Instr_dup(cx, instr.arg)
      [] instr.op = "ret" -> Instr_ret(cx)

\* 'for input in inputs { self.push_value(*input)?; }' from input i on.
RECURSIVE push_inputs(_, _, _)
push_inputs(self, ins, i) ==
    IF i > Len(ins) THEN With(self, CalcOk(0))
    ELSE IF ~Calculator_push_value(self, ins[i]).res.ok
    THEN Calculator_push_value(self, ins[i])
    ELSE push_inputs(Calculator_push_value(self, ins[i]).self, ins, i + 1)

\* A calculation: the Calculator, whether calculate is in its loop
\* ("running") or has returned, what it returned and by which exit, and
\* the number of instructions it has ran.
Calculation(self, status, result, exit, dispatched) ==
    [self |-> self, status |-> status, result |-> result, exit |-> exit,
     dispatched |-> dispatched]

\* The start of calculate that keeps the stack and the instruction pointer
\* of the Calculator.
calculate_start_keep(self, ins) ==
    LET pushed == push_inputs(self, ins, 1)
    IN  IF ~pushed.res.ok
        THEN Calculation(pushed.self, "returned", pushed.res, "inputs", 0)
        ELSE Calculation(pushed.self, "running", CalcOk(0), "none", 0)

\* Calculator::calculate up to its loop: the stack is cleared, the
\* instruction pointer reset and the ins are pushed.
calculate_start(self, ins) ==
    LET pushed == push_inputs([self EXCEPT !.stack = <<>>, !.ip = 0], ins, 1)
    IN  IF ~pushed.res.ok
        THEN Calculation(pushed.self, "returned", pushed.res, "inputs", 0)
        ELSE Calculation(pushed.self, "running", CalcOk(0), "none", 0)

\* One iteration of the loop of Calculator::calculate, or its exit.
calculate_loop(c, instrs) ==
    IF c.status # "running" THEN c
    ELSE IF c.self.ip >= Len(instrs)
    THEN Calculation(c.self, "returned", CalcErr("UnreachableCodeReached"), "end",
                     c.dispatched)
    ELSE LET ran == Instr_call(instrs[c.self.ip + 1], c.self)
             popped == Calculator_pop_value(ran.self)
         IN  IF ~ran.res.ok
             THEN Calculation(ran.self, "returned", ran.res, "error", c.dispatched + 1)
             ELSE IF ran.res.v = "Continue"
             THEN Calculation(ran.self, "running", CalcOk(0), "none", c.dispatched + 1)
             ELSE Calculation(popped.self, "returned", popped.res, "Return",
                              c.dispatched + 1)

\* The programs of main: (2+3) * (2+3), and (x+1) * (y+2) for ins x, y.
instrs1 ==
    << Instr("constant", 2), Instr("constant", 3), Instr("add", 0), Instr("dup", 0),
       Instr("mul", 0), Instr("ret", 0) >>

instrs2 ==
    << Instr("constant", 2), Instr("add", 0), Instr("dup", 1), Instr("constant", 1),
       Instr("add", 0), Instr("mul", 0), Instr("ret", 0) >>

\* The programs run: those of main and every program of up to MaxProgram
\* instructions.
InstrUniverse ==
    { Instr("constant", 2), Instr("add", 0), Instr("mul", 0), Instr("dup", 0),
      Instr("dup", 1), Instr("ret", 0) }

Programs == { instrs1, instrs2 } \cup SeqsUpTo(InstrUniverse, MaxProgram)

\* The ins: up to two values of 0..MaxInput.
InputLists == SeqsUpTo(0..MaxInput, 2)

\* The capacities of the Calculator: that of main, and two smaller ones.
Capacities == { 0, 3, 10 }

\* A Calculator was made.  Next to it runs `fresh`: the same calculation on
\* a Calculator that Calculator::new has just made with the same capacity.
InitCalc ==
    /\ header = GoodHeader
    /\ source = <<>>
    /\ InitPipeline
    /\ second = Idle
    /\ ectx = [status |-> "none"]
    /\ \E capacity \in Capacities :
         calc = [status |-> "made", instrs |-> <<>>, inputs |-> <<>>, dirty |-> FALSE,
                 run   |-> Calculation(Calculator_new(capacity), "idle", CalcOk(0), "none", 0),
                 fresh |-> Calculation(Calculator_new(capacity), "idle", CalcOk(0), "none", 0)]

\* calc.calculate(instrs, ins) is ran and reaches its loop (or fails
\* on the ins).  dirty tells that the Calculator was left with values on
\* the stack or with an advanced instruction pointer.
Calculate ==
    /\ calc.status = "made"
    /\ calc.run.status # "running"
    /\ \E instrs \in Programs, ins \in InputLists :
         calc' = [calc EXCEPT
                    !.instrs = instrs, !.inputs = ins,
                    !.dirty = calc.run.self.stack # <<>> \/ calc.run.self.ip # 0,
                    !.run = calculate_start(calc.run.self, ins),
                    !.fresh = calculate_start(Calculator_new(calc.run.self.capacity), ins)]
    /\ UNCHANGED <<pvars, rvars, second, ectx>>

\* The loop of calculate calls the next instruction, or calculate returns.
Dispatch ==
    /\ calc.status = "made"
    /\ calc.run.status = "running"
    /\ calc' = [calc EXCEPT !.run = calculate_loop(calc.run, calc.instrs),
                            !.fresh = calculate_loop(calc.fresh, calc.instrs)]
    /\ UNCHANGED <<pvars, rvars, second, ectx>>

NextCalc == Calculate \/ Dispatch

(***************************************************************************)
(* The bytecode interpreter of tests/bytecode.rs.  The constants of the    *)
(* programs are small, so that every value on the stack is a small         *)
(* non-negative number, the same as u64 and as i64.                        *)
(***************************************************************************)
MaxCode == 3

\* ExecutionContext::next_instr
ExecutionContext_next_instr(self) ==
    With([self EXCEPT !.ip = @ + 1], CalcOk("Continue"))

\* ExecutionContext::goto_instr
ExecutionContext_goto_instr(self, new_ip) ==
    With([self EXCEPT !.ip = @ + new_ip], CalcOk("Continue"))

\* ExecutionContext::pop
ExecutionContext_pop(self) ==
    IF self.stack = <<>> THEN With(self, CalcErr("StackUnderflow"))
    ELSE With([self EXCEPT !.stack = SubSeq(@, 1, Len(@) - 1)],
              CalcOk(self.stack[Len(self.stack)]))

\* ExecutionContext::push
ExecutionContext_push(self, value) == [self EXCEPT !.stack = Append(@, value)]

\* ExecutionContext::nth
ExecutionContext_nth(self, depth) ==
    IF depth < Len(self.stack)
    THEN CalcOk(self.stack[Len(self.stack) - depth])
    ELSE CalcErr("StackUnderflow")

\* Instruction::constant
Instruction_constant(cx, value) ==
    ExecutionContext_next_instr(ExecutionContext_push(cx, value))

\* Instruction::dup
Instruction_dup(cx, depth) ==
    IF ~ExecutionContext_nth(cx, depth).ok THEN With(cx, ExecutionContext_nth(cx, depth))
    ELSE ExecutionContext_next_instr(
            ExecutionContext_push(cx, ExecutionContext_nth(cx, depth).v))

\* Instruction::i64_add (wrapping_add is the sum: the values are small)
Instruction_i64_add(cx) ==
    LET rhs == ExecutionContext_pop(cx)
        lhs == ExecutionContext_pop(rhs.self)
    IN  IF ~rhs.res.ok THEN rhs
        ELSE IF ~lhs.res.ok THEN lhs
        ELSE ExecutionContext_next_instr(
                ExecutionContext_push(lhs.self, lhs.res.v + rhs.res.v))

\* Instruction::i64_div (no quotient of two small non-negative numbers
\* overflows)
Instruction_i64_div(cx) ==
    LET rhs == ExecutionContext_pop(cx)
        lhs == ExecutionContext_pop(rhs.self)
    IN  IF ~rhs.res.ok THEN rhs
        ELSE IF rhs.res.v = 0 THEN With(rhs.self, CalcErr("DivisionByZero"))
        ELSE IF ~lhs.res.ok THEN lhs
        ELSE ExecutionContext_next_instr(
                ExecutionContext_push(lhs.self, lhs.res.v \div rhs.res.v))

\* Instruction::goto
Instruction_goto(cx, new_ip) == ExecutionContext_goto_instr(cx, new_ip)

\* Instruction::ret
Instruction_ret(cx) == With(cx, CalcOk("Return"))

\* <Instruction as CallWithContext>::call
Instruction_call(instr, cx) ==
    CASE instr.op = "constant" -> Instruction_constant(cx, instr.arg)
      [] instr.op = "dup" -> Instruction_dup(cx, instr.arg)
      [] instr.op = "i64_add" -> Instruction_i64_add(cx)
      [] instr.op = "i64_div" -> Instruction_i64_div(cx)
      [] instr.op = "goto" -> Instruction_goto(cx, instr.arg)
      [] instr.op = "ret" -> Instruction_ret(cx)

\* ExecutionContext::exec_instr
exec_instr(self) ==
    IF self.ip >= Len(self.instrs) THEN With(self, CalcErr("UnreachableCodeReached"))
    ELSE Instruction_call(self.instrs[self.ip + 1], self)

\* The instructions of the programs, and the programs of up to MaxCode
\* instructions.
InstructionUniverse ==
    { Instr("constant", 0), Instr("constant", 3), Instr("dup", 0), Instr("i64_add", 0),
      Instr("i64_div", 0), Instr("goto", 0), Instr("goto", 1), Instr("goto", 2),
      Instr("ret", 0) }

NoInstruction == Instr("none", 0)

\* An ExecutionContext with a program, at its first instruction and with an
\* empty stack.  `last` is the instruction exec_instr called last and
\* `result` what the call returned.
InitExec ==
    /\ header = GoodHeader
    /\ source = <<>>
    /\ InitPipeline
    /\ second = Idle
    /\ calc = [status |-> "none"]
    /\ \E instrs \in SeqsUpTo(InstructionUniverse, MaxCode) :
         ectx = [status |-> "made", last |-> NoInstruction, result |-> CalcOk(0),
                 self |-> [instrs |-> instrs, ip |-> 0, stack |-> <<>>]]

\* ectx.exec_instr() is called.
ExecInstr ==
    /\ ectx.status = "made"
    /\ ectx' = [ectx EXCEPT
                  !.self = exec_instr(ectx.self).self,
                  !.result = exec_instr(ectx.self).res,
                  !.last = IF ectx.self.ip < Len(ectx.self.instrs)
                           THEN ectx.self.instrs[ectx.self.ip + 1] ELSE NoInstruction]
    /\ UNCHANGED <<pvars, rvars, second, calc>>

NextExec == ExecInstr

Next == New \/ AnalyzeItem \/ Expand \/ CompileError

NextRun ==
    \/ New \/ AnalyzeItem \/ Expand \/ CompileError
    \/ MakeEnum \/ MakeOpt \/ IntoOpt \/ CopyOpt
    \/ CallEnum \/ CallOpt \/ CallCopy

Spec == Init /\ [][Next]_vars

SpecDecl == InitDecl /\ [][Next]_vars

SpecRun == InitRun /\ [][NextRun]_vars

NextTwo ==
    \/ New \/ AnalyzeItem \/ Expand \/ CompileError
    \/ SecondNew \/ SecondAnalyzeItem \/ SecondExpand \/ SecondCompileError

SpecTwo == InitTwo /\ [][NextTwo]_vars

SpecCalc == InitCalc /\ [][NextCalc]_vars

\* The loop of calculate goes on as long as it can.
SpecCalcFair == SpecCalc /\ WF_vars(Dispatch)

SpecExec == InitExec /\ [][NextExec]_vars

SpecPats == InitPats /\ [][Next]_vars

SpecNames == InitNames /\ [][Next]_vars

(***************************************************************************)
(* Properties of the analysis.                                             *)
(***************************************************************************)
Positions == 1..Len(source)

MethodPositions == { i \in Positions : source[i].kind = "Method" }

DeclPositions(name) ==
    { i \in Positions : source[i].kind = "Type" /\ source[i].ident = name }

Min(S) == CHOOSE x \in S : \A y \in S : x <= y

\* The macro invocation has returned / has returned a compile error.
Returned == pc = "done"

Rejected == out.kind = "compile_error" /\ error # <<>>

\* The first parameter of a method is not exactly '&mut Self::Context'.
BadFirstParam(m) == Len(m.inputs) = 0 \/ m.inputs[1].ty # "&mut Self::Context"

ContextMsg == "must have type of '&mut Self::Context' as first argument"

\* C3: if the trait declares a Context, a method whose first parameter is not
\* exactly '&mut Self::Context' (also a method without parameters) makes the
\* analysis fail; the error of this rule names the first parameter of such a
\* method, or its signature when it has no parameter, and the default type of
\* the Context declaration.
C3_ContextFirstParam ==
    /\ ( /\ Returned
         /\ DeclPositions("Context") # {}
         /\ \E i \in MethodPositions : BadFirstParam(source[i]) )
       => Rejected
    /\ (error # <<>> /\ error[1].msg = ContextMsg)
       => /\ Len(error) = 2
          /\ error[1].span.item \in MethodPositions
          /\ BadFirstParam(source[error[1].span.item])
          /\ error[1].span =
                IF Len(source[error[1].span.item].inputs) = 0
                THEN SpanOf(error[1].span.item, "sig")
                ELSE ArgSpan(error[1].span.item, 1)
          /\ DeclPositions("Context") # {}
          /\ error[2] = [msg |-> "since Context is defined here",
                         span |-> SpanOf(Min(DeclPositions("Context")), "default")]

\* A method without parameters was rejected by the Context rule.
C3_Witness ==
    /\ Returned /\ Rejected
    /\ error[1].msg = ContextMsg
    /\ error[1].span.part = "sig"
    /\ Len(source[error[1].span.item].inputs) = 0

OutputMsg == "must return Self::Output"

\* C4: if the trait declares an Output, a method that does not return
\* Self::Output (another type or no return type) makes the analysis fail, so
\* no code is generated for the trait; the error of this rule names the
\* return type of such a method, or the method when it has no return type,
\* and the default type of the Output declaration.
C4_OutputMismatch ==
    /\ ( /\ DeclPositions("Output") # {}
         /\ \E i \in MethodPositions : source[i].output # "Self::Output" )
       => /\ out.kind # "code"
          /\ Returned => Rejected
    /\ (error # <<>> /\ error[1].msg = OutputMsg)
       => /\ Len(error) = 2
          /\ error[1].span.item \in MethodPositions
          /\ error[1].span =
                IF source[error[1].span.item].output = "Default"
                THEN SpanOf(error[1].span.item, "item")
                ELSE SpanOf(error[1].span.item, "return_type")
          /\ source[error[1].span.item].output # "Self::Output"
          /\ DeclPositions("Output") # {}
          /\ error[2] = [msg |-> "since Output is defined here",
                         span |-> SpanOf(Min(DeclPositions("Output")), "default")]

\* A method returning i64 was rejected by the Output rule.
C4_Witness ==
    /\ Returned /\ Rejected
    /\ error[1].msg = OutputMsg
    /\ error[1].span.part = "return_type"
    /\ source[error[1].span.item].output = "i64"

\* The return type a method declares, '()' when it declares none.
DeclaredReturn(m) == IF m.output = "Default" THEN "()" ELSE m.output

\* C5: if the trait declares no Output, a method whose declared return type
\* differs from that of the first method makes the analysis fail, so the
\* methods of every accepted trait declare one and the same return type.
C5_InferredOutputEnforced ==
    /\ ( /\ Returned
         /\ DeclPositions("Output") = {}
         /\ \E i \in MethodPositions :
                DeclaredReturn(source[i]) # DeclaredReturn(source[Min(MethodPositions)]) )
       => Rejected
    /\ out.kind = "code"
       => \A i, j \in MethodPositions : DeclaredReturn(source[i]) = DeclaredReturn(source[j])

\* The attributes of a signature that all methods must share.
SigAttrs == {"constness", "asyncness", "unsafety", "abi"}

MismatchMsg(attr) == "encountered mismatch in " \o attr \o " for #[union_fn] method"

AgreeWithFirst(i) ==
    \A a \in SigAttrs : source[i][a] = source[Min(MethodPositions)][a]

\* C6: a method whose constness, asyncness, unsafety or ABI differs from that
\* of the first method makes the analysis fail; a mismatch error has two
\* locations, one in the mismatching method and one in the first method; no
\* mismatch error is reported when all methods agree with the first one.
C6_SignatureMismatch ==
    /\ (Returned /\ \E i \in MethodPositions : ~AgreeWithFirst(i)) => Rejected
    /\ \A a \in SigAttrs :
        (error # <<>> /\ error[1].msg = MismatchMsg(a))
        => /\ Len(error) = 2
           /\ error[1].span.item \in MethodPositions
           /\ source[error[1].span.item][a] # source[Min(MethodPositions)][a]
           /\ error[1].span.part \in {a, "sig"}
           /\ error[2].msg = "mismatch with this method"
           /\ error[2].span.item = Min(MethodPositions)
           /\ error[2].span.part \in {a, "sig"}
           /\ error[2].span.item # error[1].span.item
    /\ (error # <<>> /\ \A i \in MethodPositions : AgreeWithFirst(i))
       => \A a \in SigAttrs : error[1].msg # MismatchMsg(a)

\* An async method after a method that is not async was rejected.
C6_Witness ==
    /\ Returned /\ Rejected
    /\ error[1].msg = MismatchMsg("asyncness")
    /\ error[1].span.part = "asyncness"
    /\ error[2].span.part = "sig"

\* The positions of the first and of the second declaration of a type.
FirstDecl(name) == Min(DeclPositions(name))

SecondDecl(name) == Min(DeclPositions(name) \ {FirstDecl(name)})

TypePositions == { i \in Positions : source[i].kind = "Type" }

ConflictError(name) ==
    << [msg  |-> "encountered conflicting " \o name \o " types in #[union_fn] trait",
        span |-> SpanOf(SecondDecl(name), "item")],
       [msg  |-> "previous " \o name \o " definition here",
        span |-> SpanOf(FirstDecl(name), "item")] >>

\* C7: a trait with two Context declarations, or two Output declarations, is
\* rejected; when the analysis accepted every associated type before the
\* second declaration, the error is the conflict error at the second
\* declaration, whatever the second declaration looks like, and its second
\* location is the first declaration.
C7_SecondDeclaration ==
    \A name \in {"Context", "Output"} :
        Cardinality(DeclPositions(name)) >= 2
        => /\ Returned => Rejected
           /\ ( /\ pc \in {"failed", "done"}
                /\ \A p \in TypePositions : p < SecondDecl(name) => p \in checked )
              => error = ConflictError(name)

\* A second Context declaration that has no default was rejected as a conflict.
C7_Witness ==
    /\ Returned /\ Rejected
    /\ Cardinality(DeclPositions("Context")) >= 2
    /\ source[SecondDecl("Context")].default = "none"
    /\ error = ConflictError("Context")

\* C8: when the analysis fails the macro returns the compile error and
\* nothing else; code is returned only when analyze_item accepted every item
\* of the trait.
C8_NoPartialEmission ==
    /\ out.kind = "compile_error" => DOMAIN out = {"kind", "errors"} /\ out.errors = error
    /\ (Returned /\ (error # <<>> \/ checked # Positions)) => Rejected
    /\ out.kind = "code" => error = <<>> /\ checked = Positions

\* The analysis failed after it had accepted some item.
C8_Witness == Returned /\ Rejected /\ checked # {} /\ Len(source) = MaxItems

\* A Context or Output declaration with generics, a where clause, bounds or
\* no default.
Malformed(item) ==
    item.generics \/ item.where_clause \/ item.bounds \/ item.default = "none"

\* The declarations of Context and Output that are malformed or repeated.
WrongDecls ==
    { i \in DeclPositions("Context") \cup DeclPositions("Output") :
        Malformed(source[i]) \/ i # FirstDecl(source[i].ident) }

\* The items the analysis looked at so far.
Examined ==
    { items[i].pos : i \in { j \in 1..Len(items) :
        pc # "new" /\ (j < idx \/ (j = idx /\ pc \in {"failed", "done"})) } }

OnlyDeclsAndMethods ==
    \A i \in Positions :
        \/ source[i].kind = "Method"
        \/ source[i].kind = "Type" /\ source[i].ident \in {"Context", "Output"}

\* C9: in whatever order the items are written, no method is examined before
\* every associated type has been accepted; so the error of a trait with a
\* malformed or repeated Context or Output declaration is never about a
\* method (it is about the first such declaration when the trait has only
\* declarations and methods), and the methods of an accepted trait all obey
\* the Context and Output declared anywhere in the trait.
C9_DeclarationsFirst ==
    /\ (Examined \cap MethodPositions # {}) => TypePositions \subseteq checked
    /\ (Returned /\ WrongDecls # {})
       => /\ Rejected
          /\ error[1].span.item \notin MethodPositions
          /\ (header = GoodHeader /\ OnlyDeclsAndMethods)
             => error[1].span.item = Min(WrongDecls)
    /\ out.kind = "code"
       => /\ DeclPositions("Context") # {}
             => \A i \in MethodPositions : ~BadFirstParam(source[i])
          /\ DeclPositions("Output") # {}
             => \A i \in MethodPositions : source[i].output = "Self::Output"

\* A trait whose invalid method is written before its malformed Context was
\* rejected.
C9_Witness ==
    /\ Returned /\ Rejected
    /\ \E i \in MethodPositions, j \in WrongDecls :
        /\ i < j
        /\ source[i].default = "none"
        /\ error[1].span.item = j

\* C10: a Context or Output declaration is accepted only without generics,
\* where clause and bounds and with a default: a malformed declaration is
\* never accepted or registered and makes the analysis fail, and the default
\* type of a registered declaration can always be read.
C10_DeclarationWellFormed ==
    /\ \A i \in DeclPositions("Context") \cup DeclPositions("Output") :
        Malformed(source[i])
        => /\ i \notin checked
           /\ Returned => Rejected
    /\ state.context.some
       => /\ ~Malformed(state.context.v)
          /\ state.context.v.ident = "Context"
          /\ get_context(state) = Some(state.context.v.default)
    /\ state.output.some
       => /\ ~Malformed(state.output.v)
          /\ state.output.v.ident = "Output"
          /\ get_output(state) = Some(state.output.v.default)

\* A Context was registered and an Output without default was rejected.
C10_Witness ==
    /\ Returned /\ Rejected
    /\ state.context.some
    /\ error[1].msg = "must have a default for Output type in #[union_fn] trait"

(***************************************************************************)
(* Properties of the generated types.                                      *)
(***************************************************************************)
\* The method of the trait with the given name, as written in the source.
SourceMethod(name) ==
    source[CHOOSE i \in MethodPositions : source[i].ident = name]

\* The body of the method a value was constructed for, invoked directly with
\* the arguments of the constructor and the context c.
DirectCall(from, c) == BodyEval(SourceMethod(from.m).default, c, from.args)

\* C1: calling a value of the enum, and calling the optimized value it
\* converts into (or a copy of it), gives the output and the final context
\* that the body of the method gives when invoked directly with the
\* arguments of the constructor and the same context.
C1_DispatchPreserved ==
    called.some =>
        /\ ret = Some(DirectCall(called.v.from, called.v.ctx0).out)
        /\ ctx = DirectCall(called.v.from, called.v.ctx0).ctx

\* An enum value of a method with arguments and context was converted with
\* into_opt and called, and the call changed the context.
C1_Witness ==
    /\ called.some /\ called.v.via = "opt"
    /\ tv.some /\ made.opt = made.tv
    /\ Len(called.v.from.args) >= 1
    /\ called.v.ctx0.some /\ ctx # called.v.ctx0
    /\ opt.v = into_opt(out, tv.v)

\* The constructor of the packed arguments that writes the given field.
WroteField(field) ==
    out.args_constructors[CHOOSE i \in 1..Len(out.args_constructors) :
                            out.args_constructors[i].field = field]

\* The handler of an optimized value is the delegator of the method whose
\* constructor wrote the packed arguments, which is the method the value
\* was constructed for, and that delegator reads the field that was written.
Paired(o, mk) ==
    o.some =>
        /\ o.v.handler = WroteField(o.v.args.field).name
        /\ o.v.handler = mk.v.m
        /\ ByName(out.delegates, o.v.handler).field = o.v.args.field
        /\ DefinedRead(ByName(out.delegates, o.v.handler), o.v.args)

\* C2: every optimized value, made by a constructor, by into_opt or as a
\* copy, pairs the packed arguments with the delegator of the method whose
\* constructor wrote them, so that a call reads the field that was written;
\* a copy has the handler and the arguments of the value it was copied from.
C2_HandlerArgsPaired ==
    /\ Paired(opt, made.opt)
    /\ Paired(cpy, made.cpy)
    /\ cpy.some => cpy = opt /\ made.cpy = made.opt

\* A copy of an optimized value that into_opt made for a method with two
\* or more arguments was called.
C2_Witness ==
    /\ cpy.some /\ tv.some /\ made.cpy = made.tv
    /\ Len(cpy.v.args.value.elems) >= 2
    /\ called.some /\ called.v.via = "cpy"
    /\ cpy.v.handler # out.delegates[1].name

(***************************************************************************)
(* Properties of the analysis of methods.                                  *)
(***************************************************************************)
\* A method without body, with a self receiver among its inputs, with
\* generic parameters, with a where clause or with variadic arguments.
Unsupported(m) ==
    \/ m.default = "none"
    \/ \E k \in 1..Len(m.inputs) : m.inputs[k].kind = "Receiver"
    \/ m.generics
    \/ m.where_clause
    \/ m.variadic

SourceMethods == SelectSeq(source, LAMBDA it : it.kind = "Method")

SourceNames == [i \in 1..Len(SourceMethods) |-> SourceMethods[i].ident]

SourceVariants ==
    [i \in 1..Len(SourceMethods) |-> to_upper_camel_case(SourceMethods[i].ident)]

\* The field `f` of the elements of a generated sequence.
Column(seq, f) == [i \in 1..Len(seq) |-> seq[i][f]]

\* C12: the variants of the enum, the fields of the union and the
\* constructors, match arms, delegators and implementations are generated
\* one per method in the order the methods are written in the trait,
\* wherever the associated types are written.
C12_DeclarationOrder ==
    out.kind = "code"
    => /\ Column(out.enum_variants, "variant") = SourceVariants
       /\ Column(out.enum_call_arms, "variant") = SourceVariants
       /\ Column(out.into_opt_arms, "variant") = SourceVariants
       /\ Column(out.enum_constructors, "name") = SourceNames
       /\ Column(out.opt_constructors, "name") = SourceNames
       /\ Column(out.args_variants, "field") = SourceNames
       /\ Column(out.args_constructors, "name") = SourceNames
       /\ Column(out.delegates, "name") = SourceNames
       /\ Column(out.impls, "name") = SourceNames

\* Code was generated for a trait whose Context is declared after some of
\* its methods and before others.
C12_Witness ==
    /\ out.kind = "code"
    /\ Len(SourceNames) >= 3
    /\ \E i, j \in MethodPositions, k \in DeclPositions("Context") : i < k /\ k < j
    /\ \A i, j \in 1..Len(SourceNames) : i # j => SourceNames[i] # SourceNames[j]

\* Whether the trait declares a Context, and the number of parameters that
\* hold the context.
DeclaredContext == DeclPositions("Context") # {}

Dropped == IF DeclaredContext THEN 1 ELSE 0

\* C13: the variant of a method has one field for each parameter of the
\* method except the context parameter, in the order of the parameters and
\* with their types, under names that differ from each other: the first
\* parameter is left out when the trait declares a Context, and no
\* parameter is left out when it does not.
C13_VariantFields ==
    out.kind = "code"
    => /\ Len(out.enum_variants) = Len(SourceMethods)
       /\ \A i \in 1..Len(SourceMethods) :
            LET m == SourceMethods[i]
                v == out.enum_variants[i]
            IN  /\ v.variant = to_upper_camel_case(m.ident)
                /\ Len(v.fields) = Len(m.inputs) - Dropped
                /\ \A k \in 1..Len(v.fields) :
                      v.fields[k].ty = m.inputs[k + Dropped].ty
                /\ \A k, l \in 1..Len(v.fields) :
                      k # l => v.fields[k].pat # v.fields[l].pat
                /\ DeclaredContext => m.inputs[1].ty = "&mut Self::Context"

\* Code was generated for a trait without Context that has a method of
\* three parameters and a method without parameters.
C13_Witness ==
    /\ out.kind = "code"
    /\ ~DeclaredContext
    /\ \E i \in 1..Len(out.enum_variants) :
        /\ Len(out.enum_variants[i].fields) = 3
        /\ Column(out.enum_variants[i].fields, "ty") = <<"bool", "i32", "i32">>
    /\ \E i \in 1..Len(out.enum_variants) : out.enum_variants[i].fields = <<>>

\* The unit type, the empty tuple and the empty tuple pattern: '()'.
UnitShape == [shape |-> "unit", elems |-> <<>>]

\* The methods (by position among the methods) without parameters besides
\* the context parameter.
NoParams == { i \in 1..Len(SourceMethods) : Len(SourceMethods[i].inputs) = Dropped }

\* C14: for a method without parameters besides the context parameter the
\* field of the union has type '()', the constructor takes no parameter and
\* stores '()', and the delegator reads the field with the pattern '()' and
\* calls the implementation with the context only; an optimized value of
\* such a method holds '()' and its call gives what the body gives without
\* arguments.
C14_UnitRoundTrip ==
    out.kind = "code"
    => /\ \A i \in NoParams :
            LET name == SourceMethods[i].ident IN
            /\ out.args_variants[i] = [field |-> name, ty |-> UnitShape]
            /\ out.args_constructors[i].params = <<>>
            /\ out.args_constructors[i].field = name
            /\ out.args_constructors[i].value = UnitShape
            /\ out.delegates[i].field = name
            /\ out.delegates[i].pattern = UnitShape
            /\ out.delegates[i].callee = name
            /\ out.delegates[i].call_args = <<>>
            /\ out.delegates[i].ctx_param.some <=> DeclaredContext
       /\ \A o \in {opt, cpy} :
            (o.some /\ \E i \in NoParams : SourceMethods[i].ident = o.v.handler)
            => o.v.args = [field |-> o.v.handler, value |-> UnitShape]
       /\ (called.some /\ called.v.via \in {"opt", "cpy"} /\ called.v.from.args = <<>>)
            => /\ ret = Some(BodyEval(SourceMethod(called.v.from.m).default,
                                      called.v.ctx0, <<>>).out)
               /\ ctx = BodyEval(SourceMethod(called.v.from.m).default,
                                 called.v.ctx0, <<>>).ctx

\* An optimized value of a method that has only the context parameter was
\* called and changed the context.
C14_Witness ==
    /\ called.some /\ called.v.via = "opt" /\ called.v.from.args = <<>>
    /\ DeclaredContext
    /\ opt.v.args.value = UnitShape
    /\ ctx # called.v.ctx0

(***************************************************************************)
(* The trait Counter of tests/ui/pass/with-context.rs.                     *)
(***************************************************************************)
IsCounter ==
    /\ DeclaredContext
    /\ SourceNames = <<id_bump_by, id_select, id_div2, id_reset>>

Choices == Arr("[i64; 4]", <<11, 22, 33, 44>>)

\* The last call was made on a value constructed by method m with the
\* arguments argv, with the context c.
CalledWith(m, argv, c) ==
    /\ called.some
    /\ called.v.from = [m |-> m, args |-> argv]
    /\ called.v.ctx0 = Some(I64(c))

\* C15: for the trait Counter, bump_by(5) called with context 0 leaves the
\* context 5, reset() called with context 5 leaves it 0, and the optimized
\* value into_opt makes of select([11, 22, 33, 44]), called with the contexts
\* 0, 1, 2, 3, 4, leaves 11, 22, 33, 44, 0.
C15_CounterScenario ==
    IsCounter
    => /\ CalledWith(id_bump_by, <<I64(5)>>, 0) => ctx = Some(I64(5))
       /\ CalledWith(id_reset, <<>>, 5) => ctx = Some(I64(0))
       /\ \A n \in 0..4 :
            (CalledWith(id_select, <<Choices>>, n) /\ called.v.via = "opt" /\ tv.some)
            => /\ ctx = Some(I64(<<11, 22, 33, 44, 0>>[n + 1]))
               /\ opt = Some(into_opt(out, tv.v))

\* The optimized value of select([11, 22, 33, 44]) was called with context 4.
C15_Witness ==
    /\ IsCounter
    /\ CalledWith(id_select, <<Choices>>, 4) /\ called.v.via = "opt" /\ tv.some
    /\ ctx = Some(I64(0))

\* The impl of Call or CallWithContext a trait with or without Context
\* declaration is to get; the Context type is the default of the first
\* declaration.
ExpectedCallImpl ==
    IF DeclaredContext
    THEN [trait |-> "CallWithContext",
          Context |-> Some(source[Min(DeclPositions("Context"))].default)]
    ELSE [trait |-> "Call", Context |-> NoneV]

\* C16: the enum and the optimized type get one impl of a call trait each,
\* CallWithContext (whose call takes '&mut Context') if the trait declares
\* a Context and Call (whose call takes no context) if it does not, the
\* same trait for both types; the match arms of the enum and the delegators
\* pass a context exactly in the first case.
C16_CallEntryPoint ==
    out.kind = "code"
    => /\ out.enum_call_impl = ExpectedCallImpl
       /\ out.opt_call_impl = ExpectedCallImpl
       /\ out.enum_call_impl = out.opt_call_impl
       /\ \A i \in 1..Len(out.enum_call_arms) :
            out.enum_call_arms[i].ctx_param <=> DeclaredContext
       /\ \A i \in 1..Len(out.delegates) :
            out.delegates[i].ctx_param.some <=> DeclaredContext

\* Code was generated for a trait that declares a Context and an Output
\* and has a method.
C16_Witness ==
    /\ out.kind = "code"
    /\ DeclaredContext /\ DeclPositions("Output") # {}
    /\ MethodPositions # {}
    /\ out.opt_call_impl.trait = "CallWithContext"

\* C17: whether the enum and the optimized type are called through
\* CallWithContext::call or through Call::call depends on whether the trait
\* defines 'type Output': CallWithContext is implemented exactly for the
\* traits that declare an Output.
C17_CallTraitByOutput ==
    out.kind = "code"
    => /\ out.enum_call_impl.trait = "CallWithContext" <=> DeclPositions("Output") # {}
       /\ out.opt_call_impl.trait = "CallWithContext" <=> DeclPositions("Output") # {}

(***************************************************************************)
(* Properties of the macro as a whole.                                     *)
(***************************************************************************)
\* C18: an invocation of the macro starts from the empty state and neither
\* reads nor writes anything of another invocation: whatever the other
\* invocation is given, however far it has come and whether or not it
\* failed, the invocation returns what union_fn returns for its own
\* arguments alone, and until it has begun its state is the empty state.
C18_IndependentInvocations ==
    /\ pc = "done" => out = union_fn(header, source)
    /\ second.pc = "done" => second.out = union_fn(second.header, second.source)
    /\ pc = "new" => state = DefaultState
    /\ second.pc = "new" => second.state = DefaultState

\* The second invocation began while the first was analysing its items and
\* had registered a Context; the first failed and the second generated code
\* for a trait without Context.
C18_Witness ==
    /\ pc = "done" /\ out.kind = "compile_error"
    /\ state.context.some
    /\ second.pc = "done" /\ second.began = "analyze"
    /\ second.out.kind = "code" /\ ~second.state.context.some
    /\ second.source # source

\* C19 as stated: the items of the trait are, at every moment of the
\* analysis and the expansion, the items in the order they were parsed.
C19_ItemsImmutable == items = source

\* The items are the parsed items sorted stably by their class: the same
\* items with the same contents, the unsupported items before the associated
\* types before the methods, and the items of one class in source order.
StablySorted ==
    /\ Len(items) = Len(source)
    /\ \A i \in 1..Len(items) : items[i] = source[items[i].pos]
    /\ \A i, j \in 1..Len(items) :
        i < j => \/ order_value(items[i]) < order_value(items[j])
                 \/ /\ order_value(items[i]) = order_value(items[j])
                    /\ items[i].pos < items[j].pos

\* C19 (amended): the analysis and the expansion never change the contents
\* of an item; UnionFn::new reorders the items once, before it analyses
\* them, by a stable sort that puts unsupported items first, associated
\* types next and methods last, and the items stay in that order while
\* they are analysed and expanded.  (If the trait header is rejected the
\* items are not sorted.)
C19_ItemsSortedOnce ==
    /\ (pc = "new" \/ analyze_trait(header) # <<>>) => items = source
    /\ (pc # "new" /\ analyze_trait(header) = <<>>) => StablySorted
    /\ \A i \in 1..Len(source) : source[i].pos = i

\* Code was generated for a trait whose items the sort had put in another
\* order.
C19_Witness ==
    /\ pc = "done" /\ out.kind = "code"
    /\ items # source
    /\ MethodPositions # {}

\* The shape in which n values are packed.
ShapeFor(n) == IF n = 0 THEN "unit" ELSE IF n = 1 THEN "single" ELSE "tuple"

\* The arguments the delegator of an optimized value passes to the
\* implementation, after the context.
Unpacked(o) ==
    LET d == ByName(out.delegates, o.handler) IN
    BoundAll(d.pattern.elems, o.args.value.elems, d.call_args)

\* An optimized value o made for the constructor call mk holds the
\* arguments of that call position by position, in the shape for their
\* number, and its delegator unpacks them position by position into the
\* parameters of the implementation, which are the parameters of the method.
Positional(o, mk) ==
    o.some =>
        LET n == Len(mk.v.args)
            d == ByName(out.delegates, o.v.handler)
            m == SourceMethod(mk.v.m)
        IN  /\ o.v.args.value = [shape |-> ShapeFor(n), elems |-> mk.v.args]
            /\ d.pattern.shape = ShapeFor(n)
            /\ Len(d.pattern.elems) = n
            /\ Unpacked(o.v) = mk.v.args
            /\ ByName(out.impls, d.callee).params
                 = SubSeq(m.inputs, 1 + Dropped, Len(m.inputs))
            /\ Len(m.inputs) = n + Dropped

\* C20: for a method of any number of parameters, the optimized value
\* holds the arguments of the constructor in their order ('()' for none,
\* the value itself for one, a tuple for two or more), and the body
\* receives the i-th argument as its i-th parameter; so does the body
\* called through the enum.
C20_PositionalPacking ==
    /\ Generated => Positional(opt, made.opt) /\ Positional(cpy, made.cpy)
    /\ (Generated /\ tv.some)
        => LET arm == ByVariant(out.enum_call_arms, tv.v.variant) IN
           /\ BoundAll(arm.bindings, FieldValues(tv.v, arm.bindings), arm.call_args)
                = made.tv.v.args
           /\ arm.callee = made.tv.v.m

\* An optimized value of a method with three parameters was made from three
\* different arguments and called.
C20_Witness ==
    /\ called.some /\ called.v.via = "opt"
    /\ Len(made.opt.v.args) = 3
    /\ made.opt.v.m = SumMethod(3).ident
    /\ opt.v.args.value.shape = "tuple"
    /\ \A i, j \in 1..3 : i # j => made.opt.v.args[i] # made.opt.v.args[j]

(***************************************************************************)
(* Properties of the output type and of the order of the checks.           *)
(***************************************************************************)
\* The output type of a trait: the default of its Output declaration, else
\* the return type written for its first method, else '()'.
ExpectedOutput ==
    IF DeclPositions("Output") # {}
    THEN source[Min(DeclPositions("Output"))].default
    ELSE IF MethodPositions = {} THEN "()"
    ELSE IF source[Min(MethodPositions)].output = "Default" THEN "()"
    ELSE source[Min(MethodPositions)].output

\* C21: the Output type generated for an accepted trait is the default type
\* of the Output declaration if there is one, else the return type of the
\* first method, and '()' if that method has no return type or the trait
\* has no method; the enum and the optimized type get the same type.
C21_EffectiveOutput ==
    out.kind = "code"
    => /\ out.reflection.enum_output = ExpectedOutput
       /\ out.reflection.opt_output = ExpectedOutput

\* Code was generated for a trait without Output declaration whose first
\* method returns i64 and is followed by a method without return type.
C21_Witness ==
    /\ out.kind = "code"
    /\ DeclPositions("Output") = {}
    /\ out.reflection.enum_output = "i64"
    /\ \E i \in MethodPositions : source[i].output = "Default"

\* The errors of the rules on the form of a method.
StructuralMsgs ==
    { "must not be generic", "must not have a where clause",
      "must not have variadic arguments", "must have default implementation",
      "must not have self receiver argument" }

\* C22: the rules on the form of a method (generic parameters, where
\* clause, variadic arguments, missing body, self receiver) are applied
\* before its return type is checked: when the analysis fails at a method
\* that breaks one of these rules, the error is the error of such a rule,
\* also if the method returns the wrong type.
C22_StructuralFirst ==
    (Returned /\ Rejected /\ header = GoodHeader)
    => \A i \in MethodPositions :
         (Unsupported(source[i]) /\ error[1].span.item = i)
         => error[1].msg \in StructuralMsgs

(***************************************************************************)
(* Properties of the generated names.                                      *)
(***************************************************************************)
\* C23: methods with different names get variants with different names, so
\* that the enum has one variant for each method.
C23_DistinctTags ==
    out.kind = "code"
    => \A i, j \in 1..Len(SourceMethods) :
         SourceNames[i] # SourceNames[j]
         => out.enum_variants[i].variant # out.enum_variants[j].variant

(***************************************************************************)
(* Properties of the UnionFnState.                                         *)
(***************************************************************************)
\* The shared signature is that of the first method of the sorted items.
BaselineIsFirst(st, its) ==
    st.signature.some
    => /\ methods(its) # <<>>
       /\ st.signature.v.pos = methods(its)[1].pos
       /\ st.signature.v.output = methods(its)[1].output
       /\ st.signature.v.constness = methods(its)[1].constness
       /\ st.signature.v.asyncness = methods(its)[1].asyncness
       /\ st.signature.v.unsafety = methods(its)[1].unsafety
       /\ st.signature.v.abi = methods(its)[1].abi

\* C24: in one analysis the Context, the Output and the shared signature
\* are each set at most once: a step never changes one that is set, and the
\* shared signature is always the signature of the first method analysed.
C24_AssignedOnce ==
    [][ /\ state.context.some => state'.context = state.context
        /\ state.output.some => state'.output = state.output
        /\ state.signature.some => state'.signature = state.signature
        /\ BaselineIsFirst(state', items') ]_vars

\* Two methods were accepted, the second with another return type than the
\* first, and the shared signature is that of the first.
C24_Witness ==
    /\ pc = "done"
    /\ state.signature.some
    /\ state.signature.v.pos = Min(MethodPositions)
    /\ \E i \in checked \cap MethodPositions :
        /\ i > state.signature.v.pos
        /\ source[i].output # state.signature.v.output

C26_DistinctBindings ==
    out.kind = "code"
    => \A i \in 1..Len(out.enum_variants) :
         \A a, b \in 1..Len(out.enum_variants[i].fields) :
            a # b => /\ out.enum_variants[i].fields[a].pat # out.enum_variants[i].fields[b].pat
                     /\ out.enum_constructors[i].fields[a] # out.enum_constructors[i].fields[b]

(***************************************************************************)
(* Properties of the return-type check.                                    *)
(***************************************************************************)
\* The method at position i passes register_sigature: it has no generics,
\* where clause or variadic and agrees with the first method in constness,
\* asyncness, unsafety and abi.
SignatureClean(i) ==
    /\ ~source[i].generics /\ ~source[i].where_clause /\ ~source[i].variadic
    /\ source[i].constness = source[Min(MethodPositions)].constness
    /\ source[i].asyncness = source[Min(MethodPositions)].asyncness
    /\ source[i].unsafety = source[Min(MethodPositions)].unsafety
    /\ source[i].abi = source[Min(MethodPositions)].abi

\* C27: the return type is compared with the tokens 'Self::Output': with an
\* Output declared, a method whose return type is written as the default
\* type of the Output is not accepted; the trait is rejected, and when the
\* analysis fails at such a method past the signature rules, the error is
\* 'must return Self::Output' at the return type.
C27_SyntacticOutputCheck ==
    /\ \A i \in checked \cap MethodPositions :
         state.output.some => source[i].output = "Self::Output"
    /\ (Returned /\ DeclPositions("Output") # {})
       => \A i \in MethodPositions :
            source[i].output = source[Min(DeclPositions("Output"))].default
            => /\ Rejected
               /\ (error[1].span.item = i /\ SignatureClean(i))
                  => /\ error[1].msg = OutputMsg
                     /\ error[1].span = SpanOf(i, "return_type")

\* With 'type Output = i64' a method returning i64 was rejected by the
\* Output rule.
C27_Witness ==
    /\ Returned /\ Rejected
    /\ state.output.some
    /\ error[1].msg = OutputMsg
    /\ error[1].span.item \in MethodPositions
    /\ source[error[1].span.item].output = state.output.v.default

(***************************************************************************)
(* Properties of the calculator.                                           *)
(***************************************************************************)
\* C28: calculate clears the stack and resets the instruction pointer:
\* whatever calculations the Calculator ran before, it is in the same state
\* and returns the same result as a fresh Calculator of the same capacity;
\* the program instrs2 returns (x + 1) * (y + 2) for inputs x, y on a
\* Calculator with room for its four values.
C28_CalculateResets ==
    calc.status = "made"
    => /\ calc.run = calc.fresh
       /\ ( /\ calc.run.status = "returned"
            /\ calc.instrs = instrs2
            /\ Len(calc.inputs) = 2
            /\ calc.run.self.capacity >= 4 )
          => calc.run.result = CalcOk((calc.inputs[1] + 1) * (calc.inputs[2] + 2))

\* instrs2 has returned on a Calculator that an earlier calculation had
\* left with values on its stack.
C28_Witness ==
    /\ calc.status = "made"
    /\ calc.dirty
    /\ calc.run.status = "returned"
    /\ calc.instrs = instrs2
    /\ calc.inputs = <<2, 1>>
    /\ calc.run.result = CalcOk(9)

\* The calculation is in the loop of calculate / calculate has returned.
CalcRunning == calc.status = "made" /\ calc.run.status = "running"

CalcReturned == calc.status = "made" /\ calc.run.status = "returned"

\* C29: calculate terminates after calling at most Len(instrs)
\* instructions: an instruction that returns Continue has advanced the
\* instruction pointer by exactly one, so that the pointer counts the
\* instructions called; calculate returns at the first Return, at the first
\* error, or with UnreachableCodeReached when the pointer is past the last
\* instruction; and every calculation returns.
C29_CalculateTerminates ==
    /\ [](calc.status = "made"
           => /\ calc.run.dispatched <= Len(calc.instrs)
              /\ CalcRunning => calc.run.self.ip = calc.run.dispatched
              /\ (CalcReturned /\ calc.run.exit = "end")
                 => /\ calc.run.result = CalcErr("UnreachableCodeReached")
                    /\ calc.run.self.ip = Len(calc.instrs)
              /\ (CalcReturned /\ calc.run.exit = "Return")
                 => calc.instrs[calc.run.dispatched].op = "ret"
              /\ (CalcReturned /\ calc.run.exit \in {"error", "inputs"})
                 => ~calc.run.result.ok)
    /\ [][(CalcRunning /\ calc'.run.status = "running")
            => /\ calc'.run.self.ip = calc.run.self.ip + 1
               /\ calc'.run.dispatched = calc.run.dispatched + 1]_vars
    /\ (CalcRunning ~> CalcReturned)

\* All seven instructions of instrs2 were called and calculate returned at
\* its ret.
C29_Witness ==
    /\ CalcReturned
    /\ calc.run.dispatched = Len(calc.instrs)
    /\ calc.instrs = instrs2
    /\ calc.run.exit = "Return"

(***************************************************************************)
(* Properties of the bytecode interpreter.                                 *)
(***************************************************************************)
\* C30: goto branches to the new instruction pointer: after exec_instr has
\* called goto(new_ip), the instruction pointer of the context is new_ip
\* and the call has returned Continue.
C30_GotoBranches ==
    (ectx.status = "made" /\ ectx.last.op = "goto")
    => /\ ectx.self.ip = ectx.last.arg
       /\ ectx.result = CalcOk("Continue")

====
